---- MODULE Spec2Model ----
(***************************************************************************)
(* AnonChat production backend (src/PRODUCTION_FIXES.md, lines 842-2012):  *)
(* SessionManager, ReputationSystem, SmartMatchmaking, the rate limiter    *)
(* and the socket event handlers of the connection coordinator.            *)
(*                                                                         *)
(* Every class method is an operator from the old state of its object to   *)
(* the new state (and the returned value); the actions of the              *)
(* specifications below apply these operators, so the API-level            *)
(* specifications (SpecSess, SpecMatch, SpecRate) and the handler-level    *)
(* specification (Spec) run the same translation of the code.              *)
(*                                                                         *)
(* Identifiers (socket ids, user ids, session tokens, match ids) are       *)
(* positive integers; uuidv4()/randomBytes() are modelled by counters that *)
(* never hand out the same value twice.  Payload data without any effect   *)
(* on control flow (usernames, message text, admin metrics, log lines) is  *)
(* left out.                                                               *)
(***************************************************************************)
EXTENDS Integers, Sequences, FiniteSets, TLC

\* ------------------------------------------------------------------ bounds
StartTime == 1000000     \* Date.now() (ms) when the server starts
MaxSockets == 2         \* socket ids 1..MaxSockets
MaxUsers == 2           \* user ids 1..MaxUsers, and session tokens of Spec
MaxTokens == 2          \* session tokens 1..MaxTokens of SpecSess
MaxMatches == 2         \* match ids 1..MaxMatches
MaxRooms == 1           \* public room ids 1..MaxRooms
MaxNow == 61000         \* SpecSess and Spec: the clock runs to StartTime + MaxNow
MaxMatchNow == 1000     \* SpecMatch: the clock runs to StartTime + MaxMatchNow
MaxRateNow == 11000     \* SpecRate: the clock runs to StartTime + MaxRateNow
MaxSessSteps == 5       \* SpecSess: number of calls in a run
MaxMatchSteps == 7      \* SpecMatch: number of calls in a run
MaxTypingSteps == 6     \* SpecTyping: number of events in a run
MaxTypingNow == 6000    \* SpecTyping: the clock runs to StartTime + MaxTypingNow
MaxLimitSteps == 6      \* SpecLimit: number of calls in a run
MaxRateSteps == 7       \* SpecRate: number of calls in a run
MaxSteps == 6           \* Spec: number of events in a run
MaxGoneSteps == 6       \* SpecGone: number of calls in a run
MaxPairSteps == 5       \* SpecPair: number of calls in a run
MaxAuthSteps == 5       \* SpecAuth: number of events in a run
MaxReconSteps == 7      \* SpecRecon: number of events in a run
MaxSendSteps == 8       \* SpecSend: number of events in a run
MaxAskSteps == 7        \* SpecPrivate: number of events in a run
MaxRoomSteps == 8       \* SpecRooms: number of events before the disconnects
MaxDiscSteps == 7       \* SpecDisc: number of events in a run
MaxLegacySteps == 12    \* SpecLegacy: number of events in a run
MaxLegacyChatSteps == 5 \* SpecLegacy: message:send and typing are among the first events
MaxLegacyNow == 90000   \* SpecLegacy: the clock runs to StartTime + MaxLegacyNow
MaxBestSteps == 6       \* SpecBest: number of calls in a run
MaxBestMessages == 10   \* SpecBest: messages a user may have sent before the run
MaxBestNow == 25577     \* SpecBest: the clock runs to StartTime + MaxBestNow
MaxForgiveNow == 216000000  \* SpecForgive: the clock runs to StartTime + MaxForgiveNow
MaxForgiveHours == 58   \* SpecForgive: hours of good conduct before the run
MaxOffences == 4        \* SpecForgive: number of offences of the user
MaxForgiveMsgs == 2     \* SpecForgive: messages counted in the run
MaxMsgs == 22           \* SpecBuf: messages appended to one session buffer

\* ------------------------------------------------------- program constants
None == 0                       \* null / undefined
SESSION_TTL == 60000
MESSAGE_BUFFER_SIZE == 20
INITIAL_SCORE == 100
REPUTATION_TTL == 86400000
MESSAGE_INTERVAL == 500
MESSAGE_BURST == 5
TYPING_INTERVAL == 1000
REPORT_INTERVAL == 10000
RATE_WINDOW == 10000
MAX_PRIORITY == 5
CLEANUP_INTERVAL == 30000
DECAY_INTERVAL == 3600000

SocketIds == 1..MaxSockets
UserIds == 1..MaxUsers
TokenIds == 1..MaxTokens
MatchIds == 1..MaxMatches
RoomIds == 1..MaxRooms
Priorities == 0..MAX_PRIORITY

VARIABLES
    now,                \* Date.now()
    sessions,           \* SessionManager.sessions: token -> session
    socketToSession,    \* SessionManager.socketToSession: socketId -> token
    nextToken,          \* number of tokens generated so far
    reputations,        \* ReputationSystem.reputations: userId -> record
    waitingQueue,       \* SmartMatchmaking.waitingQueue: priority -> Set (insertion order)
    userMetadata,       \* SmartMatchmaking.userMetadata: userId -> metadata
    activeMatches,      \* SmartMatchmaking.activeMatches: matchId -> record
    nextMatch,          \* number of match ids generated so far
    rateLimits,         \* rateLimits: userId -> limits
    messageChecks,      \* per user: the 'message' checks since the record was created
    accepted,           \* per user and type: the times of the calls of checkRateLimit that returned true
    users,              \* users: userId -> user data
    activeSockets,      \* activeSockets: socketId -> userId
    userSockets,        \* userSockets: userId -> Set<socketId>
    publicRooms,        \* publicRooms: roomId -> participants
    privateChatRooms,   \* privateChatRooms: chatId -> participants
    conn,               \* per socket: connection state, the closure variables
                        \* currentUserId and currentSessionToken, and a history:
                        \* the users the socket authenticated as (identities)
                        \* and the time it disconnected (closedAt)
    nextUser,           \* number of user ids generated so far
    nextMessage,        \* number of message ids generated so far
    typingUsers,        \* typingUsers: roomId -> Set<userId>
    typingTimers,       \* pending setTimeout callbacks of the typing handler, oldest first
    backend,            \* which of the two server programs runs
    privateRequests,    \* legacy: the private:request events emitted, as <<requesterId, target>>
    timerDue,           \* the time at which each periodic timer is next due
    steps,              \* number of calls / events so far
    ret                 \* the last call and what it returned

sessVars == <<sessions, socketToSession, nextToken>>
repVars == <<reputations>>
matchVars == <<waitingQueue, userMetadata, activeMatches, nextMatch>>
rateVars == <<rateLimits, messageChecks, accepted>>
coordVars == <<users, activeSockets, userSockets, publicRooms, privateChatRooms,
               conn, nextUser, nextMessage, typingUsers, typingTimers, backend, privateRequests>>
vars == <<now, sessVars, repVars, matchVars, rateVars, coordVars, timerDue, steps, ret>>

\* ------------------------------------------------------------ Map helpers
EmptyMap == [x \in {} |-> None]
MapPut(m, k, v) == [x \in (DOMAIN m) \cup {k} |-> IF x = k THEN v ELSE m[x]]
MapDel(m, k) == [x \in (DOMAIN m) \ {k} |-> m[x]]
MapDelAll(m, ks) == [x \in (DOMAIN m) \ ks |-> m[x]]
Range(s) == {s[i] : i \in DOMAIN s}
\* Set.add / Set.delete on a Set kept in insertion order
SetAdd(s, x) == IF x \in Range(s) THEN s ELSE Append(s, x)
SetDelete(s, x) == SelectSeq(s, LAMBDA y : y # x)

\* the record of the last call: op(a, b) returned res / ok
Ret(op, a, res, ok) ==
    [op |-> op, a |-> a, res |-> res, ok |-> ok, socket |-> None, threw |-> FALSE]

\* one more event; every specification bounds the length of its runs
OneMore == steps' = steps + 1

\* one more call, in a run of at most max calls
Count(max) == steps < max /\ steps' = steps + 1

\* the clock advances by one of the given steps
Advance(deltas, max) ==
    \E d \in deltas : now + d <= StartTime + max /\ now' = now + d

\* ----------------------------------------------------------- SessionManager
SM == [sessions |-> sessions, socketToSession |-> socketToSession]

NewSession(socketId, userId, t) ==
    [socketId |-> socketId, userId |-> userId, lastActivity |-> t, currentRoom |-> None, currentMatch |-> None,
     messageBuffer |-> << >>, reconnectCount |-> 0]

createSession(sm, socketId, userId, token, t) ==
    [sessions |-> MapPut(sm.sessions, token, NewSession(socketId, userId, t)),
     socketToSession |-> MapPut(sm.socketToSession, socketId, token)]

\* Object.assign(session, updates, { lastActivity: Date.now() })
updateSession(sm, token, updates, t) ==
    IF token \in DOMAIN sm.sessions
    THEN LET s == sm.sessions[token]
             s2 == [f \in DOMAIN s |->
                      IF f = "lastActivity" THEN t
                      ELSE IF f \in DOMAIN updates THEN updates[f] ELSE s[f]]
         IN [sm |-> [sm EXCEPT !.sessions = MapPut(@, token, s2)], ok |-> TRUE]
    ELSE [sm |-> sm, ok |-> FALSE]

\* pop() instead of shift(): the newest message is dropped
addMessageToBufferDropNewest(sm, token, message) ==
    IF token \in DOMAIN sm.sessions
    THEN LET pushed == Append(sm.sessions[token].messageBuffer, message)
             buf == IF Len(pushed) > MESSAGE_BUFFER_SIZE
                    THEN SubSeq(pushed, 1, Len(pushed) - 1) ELSE pushed
         IN [sm EXCEPT !.sessions[token].messageBuffer = buf]
    ELSE sm

addMessageToBuffer(sm, token, message) ==
    IF token \in DOMAIN sm.sessions
    THEN LET pushed == Append(sm.sessions[token].messageBuffer, message)
             buf == IF Len(pushed) > MESSAGE_BUFFER_SIZE THEN Tail(pushed) ELSE pushed
         IN [sm EXCEPT !.sessions[token].messageBuffer = buf]
    ELSE sm

\* the token of the returned session, None for null
getSessionNoExpiry(sm, token, t) ==
    IF token \in DOMAIN sm.sessions THEN token ELSE None

getSession(sm, token, t) ==
    IF token \in DOMAIN sm.sessions
       /\ t - sm.sessions[token].lastActivity < SESSION_TTL
    THEN token ELSE None

getSessionBySocket(sm, socketId, t) ==
    IF socketId \in DOMAIN sm.socketToSession
    THEN getSession(sm, sm.socketToSession[socketId], t)
    ELSE None

reconnectSession(sm, token, newSocketId, t) ==
    IF getSession(sm, token, t) # None
    THEN LET s == sm.sessions[token]
             s2 == [s EXCEPT !.socketId = newSocketId,
                             !.reconnectCount = @ + 1,
                             !.lastActivity = t]
         IN [sm |-> [sessions |-> MapPut(sm.sessions, token, s2),
                     socketToSession |->
                         MapPut(MapDel(sm.socketToSession, s.socketId),
                                newSocketId, token)],
             res |-> token]
    ELSE [sm |-> sm, res |-> None]

deleteSession(sm, token) ==
    IF token \in DOMAIN sm.sessions
    THEN [sessions |-> MapDel(sm.sessions, token),
          socketToSession |-> MapDel(sm.socketToSession, sm.sessions[token].socketId)]
    ELSE sm

\* deleteSession for every expired session; the result does not depend on
\* the order in which the Map is iterated
cleanupExpiredSessions(sm, t) ==
    LET expired == {k \in DOMAIN sm.sessions :
                        t - sm.sessions[k].lastActivity > SESSION_TTL}
    IN [sessions |-> MapDelAll(sm.sessions, expired),
        socketToSession |->
            MapDelAll(sm.socketToSession, {sm.sessions[k].socketId : k \in expired})]

SetSM(sm) ==
    /\ sessions' = sm.sessions
    /\ socketToSession' = sm.socketToSession

Max(a, b) == IF a > b THEN a ELSE b
Min(a, b) == IF a < b THEN a ELSE b
Abs(a) == IF a < 0 THEN -a ELSE a

\* ------------------------------------------------- IEEE 754 double arithmetic
\* JavaScript numbers are doubles.  A natural number of any size is the
\* sequence of its digits in base 2^15, least significant first, without
\* leading zeros; a non-negative double is [m, e], standing for m * 2^e, with
\* m odd and below 2^53 (or m = << >>, e = 0 for zero).
Base == 2^15
\* the significand of a double: 52 stored bits and the implicit one
Precision == 52 + 1

RECURSIVE Trim(_)
Trim(M) ==
    IF M = << >> THEN M
    ELSE IF M[Len(M)] = 0 THEN Trim(SubSeq(M, 1, Len(M) - 1)) ELSE M

RECURSIVE FromNat(_)
FromNat(n) == IF n = 0 THEN << >> ELSE <<n % Base>> \o FromNat(n \div Base)

Digit(M, i) == IF i <= Len(M) THEN M[i] ELSE 0

RECURSIVE BitLenSmall(_)
BitLenSmall(n) == IF n = 0 THEN 0 ELSE 1 + BitLenSmall(n \div 2)

BaseBits == BitLenSmall(Base) - 1

BitLen(M) == IF M = << >> THEN 0 ELSE BaseBits * (Len(M) - 1) + BitLenSmall(M[Len(M)])

RECURSIVE AddFrom(_, _, _, _)
AddFrom(M, N, i, carry) ==
    IF i > Len(M) /\ i > Len(N) THEN (IF carry = 0 THEN << >> ELSE <<carry>>)
    ELSE LET s == Digit(M, i) + Digit(N, i) + carry
         IN <<s % Base>> \o AddFrom(M, N, i + 1, s \div Base)

AddBig(M, N) == AddFrom(M, N, 1, 0)

RECURSIVE MulFrom(_, _, _, _)
MulFrom(M, d, i, carry) ==
    IF i > Len(M) THEN (IF carry = 0 THEN << >> ELSE <<carry>>)
    ELSE LET s == M[i] * d + carry
         IN <<s % Base>> \o MulFrom(M, d, i + 1, s \div Base)

\* M * d for a digit d
MulSmall(M, d) == Trim(MulFrom(M, d, 1, 0))

RECURSIVE MulBig(_, _)
MulBig(M, N) ==
    IF N = << >> \/ M = << >> THEN << >>
    ELSE Trim(AddBig(MulSmall(M, N[1]), <<0>> \o MulBig(M, Tail(N))))

\* M * 2^s and floor(M / 2^s)
ShiftLeft(M, s) ==
    IF M = << >> THEN M
    ELSE [i \in 1..(s \div BaseBits) |-> 0] \o MulSmall(M, 2^(s % BaseBits))

ShiftRight(M, s) ==
    LET X == SubSeq(M, (s \div BaseBits) + 1, Len(M))
        r == s % BaseBits
    IN Trim([i \in 1..Len(X) |->
                (X[i] \div 2^r) + (Digit(X, i + 1) % 2^r) * 2^(BaseBits - r)])

\* bit i of M, bit 0 being the least significant
Bit(M, i) == (Digit(M, (i \div BaseBits) + 1) \div 2^(i % BaseBits)) % 2

\* the bits of M below bit s are all 0
LowZero(M, s) ==
    /\ \A j \in 1..(s \div BaseBits) : Digit(M, j) = 0
    /\ Digit(M, (s \div BaseBits) + 1) % 2^(s % BaseBits) = 0

\* quotient and remainder of M by a small d, from the digits i..1, given
\* the remainder of the digits above
RECURSIVE DivFrom(_, _, _, _)
DivFrom(M, d, i, rem) ==
    IF i = 0 THEN [q |-> << >>, r |-> rem]
    ELSE LET cur == rem * Base + M[i]
             rest == DivFrom(M, d, i - 1, cur % d)
         IN [q |-> Append(rest.q, cur \div d), r |-> rest.r]

TrimQuotient(qr) == [q |-> Trim(qr.q), r |-> qr.r]

DivSmall(M, d) == TrimQuotient(DivFrom(M, d, Len(M), 0))

RECURSIVE LessFrom(_, _, _)
LessFrom(M, N, i) ==
    IF i = 0 THEN FALSE
    ELSE IF M[i] # N[i] THEN M[i] < N[i]
    ELSE LessFrom(M, N, i - 1)

LessBig(M, N) ==
    IF Len(M) # Len(N) THEN Len(M) < Len(N) ELSE LessFrom(M, N, Len(M))

RECURSIVE TrailingZeros(_, _)
TrailingZeros(M, i) == IF Bit(M, i) = 1 THEN i ELSE TrailingZeros(M, i + 1)

Zero == [m |-> << >>, e |-> 0]

\* M * 2^E with the z trailing zero bits of M moved to the exponent
Normal(M, E, z) == [m |-> ShiftRight(M, z), e |-> E + z]

\* the double m * 2^e in its one representation
Double(M, E) == IF M = << >> THEN Zero ELSE Normal(M, E, TrailingZeros(M, 0))

\* M * 2^E with the low s bits of M rounded away, q being floor(M / 2^s)
RoundQuotient(M, E, sticky, s, q) ==
    Double(IF /\ s > 0
              /\ Bit(M, s - 1) = 1
              /\ (sticky \/ ~LowZero(M, s - 1) \/ Bit(q, 0) = 1)
           THEN AddBig(q, <<1>>) ELSE q,
           E + s)

RoundAt(M, E, sticky, s) == RoundQuotient(M, E, sticky, s, ShiftRight(M, s))

\* the double nearest to M * 2^E (plus a little, if sticky), ties to even
RoundNearest(M, E, sticky) == RoundAt(M, E, sticky, Max(0, BitLen(M) - Precision))

\* a natural number below 2^31 as a double
FromInt(n) == Double(FromNat(n), 0)

RoundDivided(qr, k) == RoundNearest(qr.q, -k, qr.r # 0)

DivideAt(n, d, k) == RoundDivided(DivSmall(ShiftLeft(FromNat(n), k), d), k)

\* n / d in doubles, for integers n >= 0 and 0 < d < 2^15
FDivInt(n, d) == DivideAt(n, d, Precision + 2 + BitLenSmall(d))

AddAt(x, y, e) ==
    RoundNearest(Trim(AddBig(ShiftLeft(x.m, x.e - e), ShiftLeft(y.m, y.e - e))),
                 e, FALSE)

FAdd(x, y) == AddAt(x, y, Min(x.e, y.e))

FMul(x, y) == RoundNearest(MulBig(x.m, y.m), x.e + y.e, FALSE)

LessAt(x, y, e) == LessBig(ShiftLeft(x.m, x.e - e), ShiftLeft(y.m, y.e - e))

\* x < y
FLess(x, y) == LessAt(x, y, Min(x.e, y.e))

\* --------------------------------------------------------- ReputationSystem
NewReputation(t) ==
    [score |-> INITIAL_SCORE, messageCount |-> 0, avgResponseTime |-> Zero,
     skipCount |-> 0, reportCount |-> 0, spamScore |-> 0, lastActivity |-> t]

initializeReputation(reps, userId, t) ==
    IF userId \in DOMAIN reps THEN reps ELSE MapPut(reps, userId, NewReputation(t))

\* getReputation creates the record of an unknown user
getReputation(reps, userId, t) == initializeReputation(reps, userId, t)

recordMessage(reps, userId, isSpam, t) ==
    LET r0 == getReputation(reps, userId, t)
        rep == r0[userId]
        counted == [rep EXCEPT !.messageCount = @ + 1, !.lastActivity = t]
    IN MapPut(r0, userId,
              IF isSpam
              THEN [counted EXCEPT !.spamScore = @ + 10, !.score = Max(0, @ - 5)]
              ELSE IF rep.spamScore > 0
                   THEN [counted EXCEPT !.spamScore = Max(0, @ - 1)]
                   ELSE counted)

recordSkip(reps, userId, t) ==
    LET r0 == getReputation(reps, userId, t) IN
    MapPut(r0, userId, [r0[userId] EXCEPT !.skipCount = @ + 1,
                                          !.score = Max(0, @ - 3),
                                          !.lastActivity = t])

\* without Math.max(0, ...)
recordReportNoClamp(reps, userId, t) ==
    LET r0 == getReputation(reps, userId, t) IN
    MapPut(r0, userId, [r0[userId] EXCEPT !.reportCount = @ + 1,
                                          !.score = @ - 15,
                                          !.lastActivity = t])

\* (avgResponseTime * 0.7) + (responseTimeMs * 0.3); avgResponseTime is a
\* double, and the literals 0.7 and 0.3 are the doubles nearest to 7/10, 3/10
recordResponseTime(reps, userId, responseTimeMs, t) ==
    LET r0 == getReputation(reps, userId, t)
        avg == r0[userId].avgResponseTime
    IN MapPut(r0, userId,
              [r0[userId] EXCEPT !.avgResponseTime =
                    IF avg = Zero THEN FromInt(responseTimeMs)
                    ELSE FAdd(FMul(avg, FDivInt(7, 10)),
                              FMul(FromInt(responseTimeMs), FDivInt(3, 10)))])

recordReport(reps, userId, t) ==
    LET r0 == getReputation(reps, userId, t) IN
    MapPut(r0, userId, [r0[userId] EXCEPT !.reportCount = @ + 1,
                                          !.score = Max(0, @ - 15),
                                          !.lastActivity = t])

\* on a record that exists (every caller has called getReputation before)
isToxic(reps, userId) ==
    LET rep == reps[userId] IN
    rep.score < 30 \/ rep.reportCount > 3 \/ rep.spamScore > 50

getMatchmakingPriority(reps, userId) == reps[userId].score \div 20

\* Math.floor(x * 0.95) for a non-negative integer x
Decayed(x) == (x * 95) \div 100

decayReputations(reps, t) ==
    LET kept == {u \in DOMAIN reps : ~(t - reps[u].lastActivity > REPUTATION_TTL)} IN
    [u \in kept |->
        [reps[u] EXCEPT !.skipCount = Decayed(@),
                        !.spamScore = Decayed(@),
                        !.score = IF @ < INITIAL_SCORE
                                  THEN Min(INITIAL_SCORE, @ + 1) ELSE @]]

\* --------------------------------------------------------- SmartMatchmaking
MM == [waitingQueue |-> waitingQueue, userMetadata |-> userMetadata,
       activeMatches |-> activeMatches]

calculateActivityLevel(reputation) ==
    IF reputation.messageCount < 10 THEN 25
    ELSE IF reputation.messageCount < 50 THEN 50
    ELSE IF reputation.messageCount < 200 THEN 75
    ELSE 100

\* waitingQueue maps every priority to its Set, in insertion order; a
\* priority without an entry in the Map is the empty sequence
addToQueue(mm, reps, userId, t) ==
    LET r0 == getReputation(reps, userId, t)
        rep == r0[userId]
        priority == getMatchmakingPriority(r0, userId)
    IN IF isToxic(r0, userId)
       THEN [mm |-> mm, reps |-> r0, success |-> FALSE, priority |-> None]
       ELSE [mm |-> [mm EXCEPT
                       !.waitingQueue[priority] = SetAdd(@, userId),
                       !.userMetadata = MapPut(@, userId,
                            [priority |-> priority, joinedAt |-> t,
                             activityLevel |-> calculateActivityLevel(rep),
                             responseSpeed |-> rep.avgResponseTime])],
             reps |-> r0, success |-> TRUE, priority |-> priority]

\* removeFromQueue, as if it kept the metadata of the user
removeFromQueueKeepingMetadata(mm, userId) ==
    IF userId \in DOMAIN mm.userMetadata
    THEN [mm EXCEPT
            !.waitingQueue[mm.userMetadata[userId].priority] = SetDelete(@, userId)]
    ELSE mm

removeFromQueue(mm, userId) ==
    IF userId \in DOMAIN mm.userMetadata
    THEN [mm EXCEPT
            !.waitingQueue[mm.userMetadata[userId].priority] = SetDelete(@, userId),
            !.userMetadata = MapDel(@, userId)]
    ELSE mm

\* the score without the waiting time
CompatScoreActivityOnly(userMeta, candidateMeta) ==
    FromInt(Abs(userMeta.activityLevel - candidateMeta.activityLevel))

\* activityDiff + (timeDiff / 1000), in doubles
CompatScore(userMeta, candidateMeta) ==
    FAdd(FromInt(Abs(userMeta.activityLevel - candidateMeta.activityLevel)),
         FDivInt(Abs(userMeta.joinedAt - candidateMeta.joinedAt), 1000))

\* Infinity, which is above every score
Infinity == [m |-> <<1>>, e |-> 2^10]

\* the loop over the candidates
RECURSIVE BestCandidate(_, _, _, _, _, _)

\* if (score < bestScore) { bestScore = score; bestMatch = candidateId; }
Better(mm, userMeta, candidates, i, bestMatch, bestScore, candidateId, score) ==
    IF bestScore = Infinity \/ FLess(score, bestScore)
    THEN BestCandidate(mm, userMeta, candidates, i + 1, candidateId, score)
    ELSE BestCandidate(mm, userMeta, candidates, i + 1, bestMatch, bestScore)

BestCandidate(mm, userMeta, candidates, i, bestMatch, bestScore) ==
    IF i > Len(candidates) THEN bestMatch
    ELSE IF candidates[i] \notin DOMAIN mm.userMetadata
    THEN BestCandidate(mm, userMeta, candidates, i + 1, bestMatch, bestScore)
    ELSE Better(mm, userMeta, candidates, i, bestMatch, bestScore, candidates[i],
                CompatScore(userMeta, mm.userMetadata[candidates[i]]))

\* without .filter(id => id !== userId)
findMatchInPriorityNoFilter(mm, userId, priority, userMeta) ==
    LET queue == mm.waitingQueue[priority]
    IN IF Len(queue) < 2 THEN None
       ELSE BestCandidate(mm, userMeta, queue, 1, None, Infinity)

findMatchInPriority(mm, userId, priority, userMeta) ==
    LET queue == mm.waitingQueue[priority]
        candidates == SelectSeq(queue, LAMBDA id : id # userId)
    IN IF Len(queue) < 2 THEN None
       ELSE IF Len(candidates) = 0 THEN None
       ELSE BestCandidate(mm, userMeta, candidates, 1, None, Infinity)

\* if (!match && userMeta.priority > 0) match = findMatchInPriority(...)
MatchBelow(mm, userId, userMeta, match) ==
    IF match = None /\ userMeta.priority > 0
    THEN findMatchInPriority(mm, userId, userMeta.priority - 1, userMeta)
    ELSE match

\* if (!match && userMeta.priority < 5) match = findMatchInPriority(...)
MatchAbove(mm, userId, userMeta, match) ==
    IF match = None /\ userMeta.priority < MAX_PRIORITY
    THEN findMatchInPriority(mm, userId, userMeta.priority + 1, userMeta)
    ELSE match

\* the search of the user's bucket and of the two next to it
SearchBuckets(mm, userId, userMeta) ==
    MatchAbove(mm, userId, userMeta,
               MatchBelow(mm, userId, userMeta,
                          findMatchInPriority(mm, userId, userMeta.priority, userMeta)))

\* the partner findMatch selects, None for no match
FindPartner(mm, userId) ==
    IF userId \notin DOMAIN mm.userMetadata THEN None
    ELSE SearchBuckets(mm, userId, mm.userMetadata[userId])

\* if (match) { removeFromQueue both; activeMatches.set(matchId, ...) }
Matched(mm, userId, matchId, t, match) ==
    IF match # None
    THEN [mm |-> [removeFromQueue(removeFromQueue(mm, userId), match) EXCEPT
                    !.activeMatches = MapPut(@, matchId,
                        [user1 |-> userId, user2 |-> match, startTime |-> t])],
          partnerId |-> match, matchId |-> matchId]
    ELSE [mm |-> mm, partnerId |-> None, matchId |-> None]

findMatch(mm, userId, matchId, t) ==
    Matched(mm, userId, matchId, t, FindPartner(mm, userId))

endMatch(mm, matchId) == [mm EXCEPT !.activeMatches = MapDel(@, matchId)]

SetMM(mm) ==
    /\ waitingQueue' = mm.waitingQueue
    /\ userMetadata' = mm.userMetadata
    /\ activeMatches' = mm.activeMatches

\* -------------------------------------------------------------- rate limiter
NewLimits(t) ==
    [lastMessage |-> 0, messageCount |-> 0, lastTyping |-> 0, lastReport |-> 0,
     windowStart |-> t]

\* if (type === 'message') { ... }
checkMessage(limits, t) ==
    LET w == IF t - limits.windowStart > RATE_WINDOW
             THEN [limits EXCEPT !.messageCount = 0, !.windowStart = t]
             ELSE limits
    IN IF w.messageCount >= MESSAGE_BURST /\ t - w.lastMessage < MESSAGE_INTERVAL
       THEN [limits |-> w, allowed |-> FALSE]
       ELSE [limits |-> [w EXCEPT !.lastMessage = t, !.messageCount = @ + 1],
             allowed |-> TRUE]

\* the typing branch, as if it noted the time of every call
checkTypingNotingDenied(limits, t) ==
    [limits |-> [limits EXCEPT !.lastTyping = t],
     allowed |-> ~(t - limits.lastTyping < TYPING_INTERVAL)]

\* if (type === 'typing') { ... }
checkTyping(limits, t) ==
    IF t - limits.lastTyping < TYPING_INTERVAL
    THEN [limits |-> limits, allowed |-> FALSE]
    ELSE [limits |-> [limits EXCEPT !.lastTyping = t], allowed |-> TRUE]

\* the report branch, as if it compared with the interval of typing
checkReportTypingInterval(limits, t) ==
    IF t - limits.lastReport < TYPING_INTERVAL
    THEN [limits |-> limits, allowed |-> FALSE]
    ELSE [limits |-> [limits EXCEPT !.lastReport = t], allowed |-> TRUE]

\* if (type === 'report') { ... }
checkReport(limits, t) ==
    IF t - limits.lastReport < REPORT_INTERVAL
    THEN [limits |-> limits, allowed |-> FALSE]
    ELSE [limits |-> [limits EXCEPT !.lastReport = t], allowed |-> TRUE]

checkRateLimit(limitsMap, userId, type, t) ==
    LET m0 == IF userId \in DOMAIN limitsMap THEN limitsMap
              ELSE MapPut(limitsMap, userId, NewLimits(t))
        limits == m0[userId]
        r == IF type = "message" THEN checkMessage(limits, t)
             ELSE IF type = "typing" THEN checkTyping(limits, t)
             ELSE IF type = "report" THEN checkReport(limits, t)
             ELSE [limits |-> limits, allowed |-> TRUE]
    IN [limits |-> MapPut(m0, userId, r.limits), allowed |-> r.allowed]

\* the 'message' checks of every user, in order, since the user's record
\* was created: <<time, allowed>>
\* the times at which a check of the type was allowed to the user, in order
Accepted(userId, type) ==
    IF <<userId, type>> \in DOMAIN accepted THEN accepted[<<userId, type>>] ELSE << >>

NoteCheck(userId, type, t, allowed) ==
    LET h == IF userId \in DOMAIN messageChecks THEN messageChecks[userId] ELSE << >>
    IN /\ messageChecks' =
          MapPut(messageChecks, userId,
                 IF type = "message" THEN Append(h, <<t, allowed>>) ELSE h)
       /\ accepted' =
          IF allowed
          THEN MapPut(accepted, <<userId, type>>, Append(Accepted(userId, type), t))
          ELSE accepted

\* ------------------------------------------------------------------- Init
\* the state at time t of a server on which only the ReputationSystem has
\* been used: the users' reputations are reps, and the decay timer, which
\* has just run if t is later than StartTime, is due an hour later
InitAt(t, reps) ==
    /\ now = t
    /\ sessions = EmptyMap
    /\ socketToSession = EmptyMap
    /\ nextToken = 0
    /\ reputations = reps
    /\ waitingQueue = [p \in Priorities |-> << >>]
    /\ userMetadata = EmptyMap
    /\ activeMatches = EmptyMap
    /\ nextMatch = 0
    /\ rateLimits = EmptyMap
    /\ messageChecks = EmptyMap
    /\ accepted = EmptyMap
    /\ users = EmptyMap
    /\ activeSockets = EmptyMap
    /\ userSockets = EmptyMap
    /\ publicRooms = [r \in RoomIds |-> {}]
    /\ privateChatRooms = EmptyMap
    /\ conn = [c \in SocketIds |->
                 [state |-> "idle", currentUserId |-> None,
                  currentSessionToken |-> None,
                  identities |-> {}, closedAt |-> None]]
    /\ nextUser = 0
    /\ nextMessage = 0
    /\ typingUsers = EmptyMap
    /\ typingTimers = << >>
    /\ backend = "production"
    /\ privateRequests = {}
    /\ timerDue = [decay |-> t + DECAY_INTERVAL]
    /\ steps = 0
    /\ ret = Ret("init", None, None, TRUE)

\* the state after construction, had the users' reputations been reps
InitWith(reps) == InitAt(StartTime, reps)

Init == InitWith(EmptyMap)

\* --------------------------------------------- SpecSess: the SessionManager
\* The methods of SessionManager called in any order with any arguments, the
\* clock advancing in between.
SessFrame == UNCHANGED <<repVars, matchVars, rateVars, coordVars, timerDue>>

SessTickSteps == {30000, 31000}

SessTick ==
    /\ Advance(SessTickSteps, MaxNow)
    /\ ret' = Ret("tick", None, None, TRUE)
    /\ UNCHANGED sessVars
    /\ Count(MaxSessSteps)
    /\ SessFrame

SessCreate(c, u) ==
    /\ nextToken < MaxTokens
    /\ nextToken' = nextToken + 1
    /\ SetSM(createSession(SM, c, u, nextToken + 1, now))
    /\ ret' = Ret("createSession", c, nextToken + 1, TRUE)
    /\ UNCHANGED now
    /\ Count(MaxSessSteps)
    /\ SessFrame

SessUpdate(t, updates) ==
    LET r == updateSession(SM, t, updates, now) IN
    /\ SetSM(r.sm)
    /\ ret' = Ret("updateSession", t, None, r.ok)
    /\ UNCHANGED <<now, nextToken>>
    /\ Count(MaxSessSteps)
    /\ SessFrame

SessGet(t) ==
    /\ ret' = Ret("getSession", t, getSession(SM, t, now), TRUE)
    /\ UNCHANGED <<now, sessVars>>
    /\ Count(MaxSessSteps)
    /\ SessFrame

SessGetBySocket(c) ==
    /\ ret' = Ret("getSessionBySocket", c, getSessionBySocket(SM, c, now), TRUE)
    /\ UNCHANGED <<now, sessVars>>
    /\ Count(MaxSessSteps)
    /\ SessFrame

SessReconnect(t, c) ==
    LET r == reconnectSession(SM, t, c, now) IN
    /\ SetSM(r.sm)
    /\ ret' = Ret("reconnectSession", t, r.res, r.res # None)
    /\ UNCHANGED <<now, nextToken>>
    /\ Count(MaxSessSteps)
    /\ SessFrame

SessDelete(t) ==
    /\ SetSM(deleteSession(SM, t))
    /\ ret' = Ret("deleteSession", t, None, TRUE)
    /\ UNCHANGED <<now, nextToken>>
    /\ Count(MaxSessSteps)
    /\ SessFrame

SessCleanup ==
    /\ SetSM(cleanupExpiredSessions(SM, now))
    /\ ret' = Ret("cleanupExpiredSessions", None, None, TRUE)
    /\ UNCHANGED <<now, nextToken>>
    /\ Count(MaxSessSteps)
    /\ SessFrame

\* The session API never reads userId and treats every update field alike:
\* one caller id and the currentRoom field exercise all of its branches.
SessUserIds == {1}

SessUpdates == {("currentRoom" :> r) : r \in RoomIds}

NextSess ==
    \/ SessTick
    \/ \E c \in SocketIds, u \in SessUserIds : SessCreate(c, u)
    \/ \E t \in TokenIds, up \in SessUpdates : SessUpdate(t, up)
    \/ \E t \in TokenIds : SessGet(t)
    \/ \E c \in SocketIds : SessGetBySocket(c)
    \/ \E t \in TokenIds, c \in SocketIds : SessReconnect(t, c)
    \/ \E t \in TokenIds : SessDelete(t)
    \/ SessCleanup

SpecSess == Init /\ [][NextSess]_vars

\* A session is expired once now - lastActivity > SESSION_TTL
Expired(s, t) == t - s.lastActivity > SESSION_TTL

\* C2: getSession, getSessionBySocket and reconnectSession never return a
\* session that was expired (now - lastActivity > SESSION_TTL) when the call
\* was made, whether or not cleanupExpiredSessions has deleted it yet.
C2_NoExpiredSessionReturned ==
    [][(ret'.op \in {"getSession", "getSessionBySocket", "reconnectSession"}
        /\ ret'.res # None)
       => (ret'.res \in DOMAIN sessions
           /\ ~Expired(sessions[ret'.res], now))]_vars

\* C2 witness: a lookup of an expired session that the sweep has not deleted
\* returned null, and a lookup of a live session returned it.
C2_Witness ==
    /\ ret.op = "getSession"
    /\ ret.a \in DOMAIN sessions
    /\ Expired(sessions[ret.a], now)
    /\ ret.res = None
    /\ \E t \in DOMAIN sessions : getSession(SM, t, now) = t

\* C3: updateSession and reconnectSession refuse an expired session that the
\* sweep has not deleted yet: the call fails and lastActivity stays as it
\* was, so the session never becomes reachable by getSession again.
C3_ExpiredSessionNotRevived ==
    [][\A t \in DOMAIN sessions :
         (Expired(sessions[t], now) /\ t \in DOMAIN sessions')
         => /\ sessions'[t].lastActivity = sessions[t].lastActivity
            /\ (ret'.op \in {"updateSession", "reconnectSession"} /\ ret'.a = t)
               => ~ret'.ok]_vars

\* Both index maps of SessionManager name each other
IndexConsistent(sm) ==
    \A c \in SocketIds, t \in TokenIds :
        (c \in DOMAIN sm.socketToSession /\ sm.socketToSession[c] = t)
        <=> (t \in DOMAIN sm.sessions /\ sm.sessions[t].socketId = c)

\* C10: after any sequence of createSession, reconnectSession, deleteSession
\* and cleanupExpiredSessions calls, socketToSession[c] = t if and only if
\* sessions holds t and sessions[t].socketId = c.
C10_IndexMapsConsistent == IndexConsistent(SM)

\* ------------------------------------------- SpecBuf: the message buffer
\* Sessions are created and messages appended to their buffers.  Message ids
\* are fresh; a session's messages are numbered in the order they are sent.
BufFrame == UNCHANGED <<now, steps, repVars, matchVars, rateVars, coordVars, timerDue>>

NextMessage(token) ==
    IF token \in DOMAIN sessions /\ Len(sessions[token].messageBuffer) > 0
    THEN sessions[token].messageBuffer[Len(sessions[token].messageBuffer)] + 1
    ELSE 1

\* every session on a socket of its own, the sockets taken in order
BufCreate(c) ==
    /\ nextToken < MaxTokens
    /\ c = nextToken + 1
    /\ nextToken' = nextToken + 1
    /\ SetSM(createSession(SM, c, c, nextToken + 1, now))
    /\ ret' = Ret("createSession", c, nextToken + 1, TRUE)
    /\ BufFrame

BufAdd(t, message) ==
    /\ message = NextMessage(t)
    /\ SetSM(addMessageToBuffer(SM, t, message))
    /\ ret' = Ret("addMessageToBuffer", t, message, t \in DOMAIN sessions)
    /\ UNCHANGED nextToken
    /\ BufFrame

NextBuf ==
    \/ \E c \in SocketIds : BufCreate(c)
    \/ \E t \in TokenIds, message \in 1..MaxMsgs : BufAdd(t, message)

SpecBuf == Init /\ [][NextBuf]_vars

\* C14: a message buffer never holds more than MESSAGE_BUFFER_SIZE messages;
\* appending to a full buffer evicts exactly the oldest message and keeps the
\* other 19 in order, followed by the new message; appending to a buffer
\* that is not full keeps all of it, followed by the new message.
C14_BufferBoundedFifo ==
    [][(ret'.op = "addMessageToBuffer" /\ ret'.a \in DOMAIN sessions)
       => LET old == sessions[ret'.a].messageBuffer
              new == sessions'[ret'.a].messageBuffer
          IN /\ Len(new) <= MESSAGE_BUFFER_SIZE
             /\ new = IF Len(old) = MESSAGE_BUFFER_SIZE
                      THEN Append(Tail(old), ret'.res)
                      ELSE Append(old, ret'.res)
             /\ \A t \in DOMAIN sessions' \ {ret'.a} :
                   sessions'[t].messageBuffer = sessions[t].messageBuffer]_vars

\* C14 witness: the 21st message was appended to a session: the buffer holds
\* the messages 2..21, the oldest one is gone.
C14_Witness ==
    /\ ret.op = "addMessageToBuffer"
    /\ ret.a \in DOMAIN sessions
    /\ ret.res = MESSAGE_BUFFER_SIZE + 1
    /\ sessions[ret.a].messageBuffer = [i \in 1..MESSAGE_BUFFER_SIZE |-> i + 1]

\* ------------------------- SpecMatch: ReputationSystem and SmartMatchmaking
\* The methods of the two classes called in any order for any user.
MatchFrame == UNCHANGED <<sessVars, rateVars, coordVars, timerDue>>

MatchTickSteps == {1000}

MatchTick ==
    /\ Advance(MatchTickSteps, MaxMatchNow)
    /\ ret' = Ret("tick", None, None, TRUE)
    /\ UNCHANGED <<repVars, matchVars>>
    /\ Count(MaxMatchSteps)
    /\ MatchFrame

MatchAdd(u) ==
    LET r == addToQueue(MM, reputations, u, now) IN
    /\ SetMM(r.mm)
    /\ reputations' = r.reps
    /\ ret' = Ret("addToQueue", u, r.priority, r.success)
    /\ UNCHANGED <<now, nextMatch>>
    /\ Count(MaxMatchSteps)
    /\ MatchFrame

MatchRemove(u) ==
    /\ SetMM(removeFromQueue(MM, u))
    /\ ret' = Ret("removeFromQueue", u, None, TRUE)
    /\ UNCHANGED <<now, repVars, nextMatch>>
    /\ Count(MaxMatchSteps)
    /\ MatchFrame

MatchFind(u) ==
    LET r == findMatch(MM, u, nextMatch + 1, now) IN
    /\ r.partnerId # None => nextMatch < MaxMatches
    /\ SetMM(r.mm)
    /\ nextMatch' = IF r.partnerId # None THEN nextMatch + 1 ELSE nextMatch
    /\ ret' = Ret("findMatch", u, r.partnerId, r.partnerId # None)
    /\ UNCHANGED <<now, repVars>>
    /\ Count(MaxMatchSteps)
    /\ MatchFrame

MatchEnd(m) ==
    /\ SetMM(endMatch(MM, m))
    /\ ret' = Ret("endMatch", None, None, TRUE)
    /\ UNCHANGED <<now, repVars, nextMatch>>
    /\ Count(MaxMatchSteps)
    /\ MatchFrame

MatchReport(u) ==
    /\ reputations' = recordReport(reputations, u, now)
    /\ ret' = Ret("recordReport", None, None, TRUE)
    /\ UNCHANGED <<now, matchVars>>
    /\ Count(MaxMatchSteps)
    /\ MatchFrame

MatchSkip(u) ==
    /\ reputations' = recordSkip(reputations, u, now)
    /\ ret' = Ret("recordSkip", None, None, TRUE)
    /\ UNCHANGED <<now, matchVars>>
    /\ Count(MaxMatchSteps)
    /\ MatchFrame

MatchMessage(u, isSpam) ==
    /\ reputations' = recordMessage(reputations, u, isSpam, now)
    /\ ret' = Ret("recordMessage", None, None, TRUE)
    /\ UNCHANGED <<now, matchVars>>
    /\ Count(MaxMatchSteps)
    /\ MatchFrame

MatchDecay ==
    /\ reputations' = decayReputations(reputations, now)
    /\ ret' = Ret("decayReputations", None, None, TRUE)
    /\ UNCHANGED <<now, matchVars>>
    /\ Count(MaxMatchSteps)
    /\ MatchFrame

NextMatch ==
    \/ MatchTick
    \/ \E u \in UserIds : MatchAdd(u)
    \/ \E u \in UserIds : MatchRemove(u)
    \/ \E u \in UserIds : MatchFind(u)
    \/ \E m \in MatchIds : MatchEnd(m)
    \/ \E u \in UserIds : MatchReport(u)
    \/ \E u \in UserIds : MatchSkip(u)
    \/ \E u \in UserIds, isSpam \in BOOLEAN : MatchMessage(u, isSpam)
    \/ MatchDecay

SpecMatch == Init /\ [][NextMatch]_vars

\* the priority buckets that hold a user
BucketsOf(u) == {p \in Priorities : u \in Range(waitingQueue[p])}
BucketsAfter(u) == {p \in Priorities : u \in Range(waitingQueue'[p])}

\* C1: a user who calls addToQueue again while still queued (no
\* removeFromQueue and no match since the previous addToQueue) is afterwards
\* a member of exactly one priority bucket, the one named by the priority of
\* the user's metadata.
C1_ReEnqueueExactlyOneBucket ==
    [][(ret'.op = "addToQueue" /\ ret'.ok /\ ret'.a \in DOMAIN userMetadata)
       => BucketsAfter(ret'.a) = {userMetadata'[ret'.a].priority}]_vars

\* the users that wait: they have metadata or sit in a bucket
Waiting == DOMAIN userMetadata \cup UNION {Range(waitingQueue[p]) : p \in Priorities}

\* C5: when A and B are both queued with equal priority and nobody else
\* waits, findMatch(A) returns B, removes A and B from every bucket and from
\* userMetadata and opens exactly one activeMatches record (for A and B); and
\* findMatch of a user without a new addToQueue returns null.
C5_MatchExactlyOnce ==
    [][(ret'.op = "findMatch")
       => LET A == ret'.a IN
          /\ (/\ A \in DOMAIN userMetadata
              /\ \E B \in DOMAIN userMetadata \ {A} :
                    /\ userMetadata[B].priority = userMetadata[A].priority
                    /\ Waiting = {A, B})
             => LET B == CHOOSE x \in DOMAIN userMetadata \ {A} : TRUE IN
                /\ ret'.res = B
                /\ BucketsAfter(A) = {}
                /\ BucketsAfter(B) = {}
                /\ A \notin DOMAIN userMetadata'
                /\ B \notin DOMAIN userMetadata'
                /\ \E m \in DOMAIN activeMatches' \ DOMAIN activeMatches :
                      /\ DOMAIN activeMatches' = DOMAIN activeMatches \cup {m}
                      /\ activeMatches'[m].user1 = A
                      /\ activeMatches'[m].user2 = B
          /\ A \notin DOMAIN userMetadata
             => (ret'.res = None /\ activeMatches' = activeMatches)]_vars

\* C8: addToQueue of a toxic user fails, and afterwards the user is in no
\* priority bucket and has no metadata, whatever was queued before.
C8_ToxicRejectedAndNotQueued ==
    [][(/\ ret'.op = "addToQueue"
        /\ ret'.a \in DOMAIN reputations
        /\ isToxic(reputations, ret'.a))
       => (/\ ~ret'.ok
           /\ BucketsAfter(ret'.a) = {}
           /\ ret'.a \notin DOMAIN userMetadata')]_vars

\* C9: no match made by findMatch includes, as requester or as partner, a
\* user who is toxic when the match is made.
C9_NoToxicUserMatched ==
    (ret.op = "findMatch" /\ ret.res # None)
    => \A u \in {ret.a, ret.res} :
          u \in DOMAIN reputations => ~isToxic(reputations, u)

\* ---------------------------------------------- SpecPair: who is paired
\* Short runs of addToQueue, removeFromQueue, findMatch and recordReport
\* (which changes the priority between two addToQueue calls).
NextPair ==
    \/ steps < MaxPairSteps /\ \E u \in UserIds : MatchAdd(u)
    \/ steps < MaxPairSteps /\ \E u \in UserIds : MatchRemove(u)
    \/ steps < MaxPairSteps /\ \E u \in UserIds : MatchFind(u)
    \/ steps < MaxPairSteps /\ \E u \in UserIds : MatchReport(u)

SpecPair == Init /\ [][NextPair]_vars

\* C16: findMatch(u) never returns u as the partner.
C16_NeverPairedWithSelf ==
    (ret.op = "findMatch") => ret.res # ret.a

\* C16 witness: a user who sat in two buckets (enqueued twice, the priority
\* changed in between) was matched with somebody else; the stale entry of the
\* user is still in a bucket.
C16_Witness ==
    /\ ret.op = "findMatch"
    /\ ret.res \notin {None, ret.a}
    /\ BucketsOf(ret.a) # {}

\* ------------------------------------------ SpecGone: leaving the queue
\* addToQueue, recordReport, removeFromQueue and findMatch in runs long
\* enough for a user to be queued twice, removed, and searched for.
Leaving == steps < MaxGoneSteps

NextGone ==
    \/ Leaving /\ \E u \in UserIds : MatchAdd(u)
    \/ Leaving /\ \E u \in UserIds : MatchRemove(u)
    \/ Leaving /\ \E u \in UserIds : MatchFind(u)
    \/ Leaving /\ \E u \in UserIds : MatchReport(u)

SpecGone == Init /\ [][NextGone]_vars

\* this step is the call op(u)
Calling(op, u) == steps' = steps + 1 /\ ret'.op = op /\ ret'.a = u

\* C34: removeFromQueue(u) leaves u without metadata, only addToQueue(u)
\* gives u metadata again, and findMatch returns only users who have
\* metadata: between removeFromQueue(u) and the next addToQueue(u) no
\* findMatch of any user returns u, whatever entries the buckets hold.
C34_RemovedUserNotMatched ==
    [][\A u \in UserIds :
          /\ Calling("removeFromQueue", u) => u \notin DOMAIN userMetadata'
          /\ (u \notin DOMAIN userMetadata /\ u \in DOMAIN userMetadata')
             => Calling("addToQueue", u)
          /\ (ret'.op = "findMatch" /\ steps' = steps + 1 /\ ret'.res = u)
             => u \in DOMAIN userMetadata]_vars

\* a findMatch has found nobody although a bucket it searched still holds
\* the entry of a user who was removed from the queue
C34_Witness ==
    /\ ret.op = "findMatch"
    /\ ret.res = None
    /\ ret.a \in DOMAIN userMetadata
    /\ \E u \in UserIds \ {ret.a} :
          /\ u \notin DOMAIN userMetadata
          /\ u \in Range(waitingQueue[userMetadata[ret.a].priority])

\* ------------------------------------------- SpecRep: the ReputationSystem
\* The methods of ReputationSystem called in any order.  No method reads the
\* record of another user, so one user exercises every branch; the response
\* time is one for which the weighted average is a whole number.
RepUserIds == {1}
ResponseTimes == {1000}

RepInit(u) ==
    /\ reputations' = initializeReputation(reputations, u, now)
    /\ ret' = Ret("initializeReputation", None, None, TRUE)
    /\ UNCHANGED <<now, matchVars>>
    /\ Count(MaxMatchSteps)
    /\ MatchFrame

RepResponse(u, responseTimeMs) ==
    /\ reputations' = recordResponseTime(reputations, u, responseTimeMs, now)
    /\ ret' = Ret("recordResponseTime", None, None, TRUE)
    /\ UNCHANGED <<now, matchVars>>
    /\ Count(MaxMatchSteps)
    /\ MatchFrame

NextRep ==
    \/ \E u \in RepUserIds : RepInit(u)
    \/ \E u \in RepUserIds, isSpam \in BOOLEAN : MatchMessage(u, isSpam)
    \/ \E u \in RepUserIds : MatchSkip(u)
    \/ \E u \in RepUserIds : MatchReport(u)
    \/ \E u \in RepUserIds, ms \in ResponseTimes : RepResponse(u, ms)
    \/ MatchDecay

SpecRep == Init /\ [][NextRep]_vars

\* C15: the score of every reputation record is between 0 and 100 after
\* any sequence of initializeReputation, recordMessage, recordSkip,
\* recordReport, recordResponseTime and decayReputations calls.
C15_ScoreWithinBounds ==
    \A u \in DOMAIN reputations :
        0 <= reputations[u].score /\ reputations[u].score <= INITIAL_SCORE

\* C15 witness: the seventh report of a user took the score from 10 to the
\* floor 0.
C15_Witness ==
    /\ ret.op = "recordReport"
    /\ \E u \in DOMAIN reputations :
          reputations[u].reportCount = 7 /\ reputations[u].score = 0

\* ------------------------------------------------ SpecRate: checkRateLimit
RateFrame == UNCHANGED <<sessVars, repVars, matchVars, coordVars, timerDue>>

RateTickSteps == {100, 500, 10001}
RateTypes == {"message", "typing", "report"}

RateTick ==
    /\ Advance(RateTickSteps, MaxRateNow)
    /\ ret' = Ret("tick", None, None, TRUE)
    /\ UNCHANGED rateVars
    /\ Count(MaxRateSteps)
    /\ RateFrame

RateCheck(u, type) ==
    LET r == checkRateLimit(rateLimits, u, type, now) IN
    /\ rateLimits' = r.limits
    /\ NoteCheck(u, type, now, r.allowed)
    /\ ret' = Ret(type, u, None, r.allowed)
    /\ UNCHANGED now
    /\ Count(MaxRateSteps)
    /\ RateFrame

NextRate ==
    \/ RateTick
    \/ \E u \in UserIds, type \in RateTypes : RateCheck(u, type)

SpecRate == Init /\ [][NextRate]_vars

\* C6: of the first six 'message' checks of a user, when their timestamps
\* all lie within one second, the first five are allowed and the sixth is
\* denied.
C6_SixthMessageInOneSecondDenied ==
    \A u \in DOMAIN messageChecks :
        LET h == messageChecks[u] IN
        (Len(h) >= 6 /\ h[6][1] - h[1][1] <= 1000)
        => (/\ \A i \in 1..5 : h[i][2]
            /\ ~h[6][2])

\* ------------------------------------------- spacing of typing and reports
\* checkRateLimit called for any user and type, the clock advancing in
\* between, in short runs.
Few == steps < MaxLimitSteps

NextLimit ==
    \/ Few /\ RateTick
    \/ Few /\ \E u \in UserIds, type \in RateTypes : RateCheck(u, type)

SpecLimit == Init /\ [][NextLimit]_vars

\* this step is a check of type for user u
Checks(u, type) == steps' = steps + 1 /\ ret'.op = type /\ ret'.a = u

\* the fields of a record that make the message budget
Budget(limits) ==
    <<limits.messageCount, limits.lastMessage, limits.windowStart>>

\* the message budget the user has before a check: that of the user's
\* record, or the unused budget of the record the check creates
BudgetBefore(u) ==
    IF u \in DOMAIN rateLimits THEN Budget(rateLimits[u]) ELSE <<0, 0, now>>

\* the check of this step is allowed, and every check of the type allowed
\* to user u before was at least interval earlier
Spaced(u, type, interval) ==
    (Checks(u, type) /\ ret'.ok)
    => \A i \in DOMAIN Accepted(u, type) : now - Accepted(u, type)[i] >= interval

\* C31: any two typing checks allowed to a user are 1000 ms or more apart,
\* and any two report checks allowed to a user 10000 ms or more, the first
\* check of a user, which creates the user's record, included.  A typing or
\* report check leaves the message budget (messageCount, lastMessage,
\* windowStart) as it was; on a user without a record it leaves the budget
\* unused.
C31_TypingAndReportSpacing ==
    [][\A u \in UserIds :
          /\ Spaced(u, "typing", TYPING_INTERVAL)
          /\ Spaced(u, "report", REPORT_INTERVAL)
          /\ (Checks(u, "typing") \/ Checks(u, "report"))
             => Budget(rateLimits'[u]) = BudgetBefore(u)]_vars

\* a second typing check and a second report check of a user have been
\* allowed, the report just now, and the user has sent a message
C31_Witness ==
    /\ ret.op = "report"
    /\ ret.ok
    /\ Len(Accepted(ret.a, "report")) >= 2
    /\ Len(Accepted(ret.a, "typing")) >= 2
    /\ rateLimits[ret.a].messageCount > 0

\* C32: a check that is denied to a user who has a record leaves the record
\* as it was: messageCount, windowStart, lastMessage, lastTyping, lastReport.
C32_DeniedCheckChangesNothing ==
    [][\A u \in DOMAIN rateLimits :
          (\E type \in RateTypes : Checks(u, type) /\ ~ret'.ok)
          => rateLimits'[u] = rateLimits[u]]_vars

\* a message check has been denied to a user who has used the whole burst
C32_Witness ==
    /\ ret.op = "message"
    /\ ~ret.ok
    /\ rateLimits[ret.a].messageCount >= MESSAGE_BURST
    /\ now - rateLimits[ret.a].lastMessage < MESSAGE_INTERVAL


\* --------------------------------------------------- payloads and text
\* A string is a sequence of runs [ch, n]: the character ch repeated n
\* times.  "a" is an ordinary character, " " a blank, "\n" a line feed;
\* "xy" is text of length n in which no two neighbours are equal; "<b>" is
\* the HTML tag '<b>' and "<script>" the script element
\* '<script>alert(1)</script>', each written once (n = 1).
Run(ch, n) == [ch |-> ch, n |-> n]
Markup == {"<b>", "<script>"}
Whitespace == {" ", "\n"}
LineTerminators == {"\n"}
SPAM_LENGTH == 500
SPAM_RUN == 11
MESSAGE_MAX == 1000

\* the number of characters that ch stands for: '<b>' and
\* '<script>alert(1)</script>' are written out in the string
CharLength(ch) ==
    CASE ch = "<b>" -> Len(<<"<", "b", ">">>)
      [] ch = "<script>" -> Len(<<"<", "s", "c", "r", "i", "p", "t", ">",
                                  "a", "l", "e", "r", "t", "(", "1", ")",
                                  "<", "/", "s", "c", "r", "i", "p", "t", ">">>)
      [] OTHER -> 1

\* text.length
RECURSIVE TextLength(_)
TextLength(text) ==
    IF text = << >> THEN 0
    ELSE Head(text).n * CharLength(Head(text).ch) + TextLength(Tail(text))

\* neighbouring runs of one character are one run
RECURSIVE MergeRuns(_)
MergeRuns(text) ==
    IF Len(text) < 2 THEN text
    ELSE IF text[1].ch = text[2].ch /\ text[1].ch # "xy"
         THEN MergeRuns(<<Run(text[1].ch, text[1].n + text[2].n)>>
                        \o SubSeq(text, 3, Len(text)))
         ELSE <<text[1]>> \o MergeRuns(Tail(text))

RECURSIVE TrimLeft(_)
TrimLeft(text) ==
    IF text # << >> /\ Head(text).ch \in Whitespace THEN TrimLeft(Tail(text))
    ELSE text

RECURSIVE TrimRight(_)
TrimRight(text) ==
    IF text # << >> /\ text[Len(text)].ch \in Whitespace
    THEN TrimRight(SubSeq(text, 1, Len(text) - 1))
    ELSE text

\* text.replace(script elements, '').replace(tags, '').trim()
sanitize(text) ==
    TrimRight(TrimLeft(MergeRuns(SelectSeq(text, LAMBDA r : r.ch \notin Markup))))

\* text.substring(0, k)
RECURSIVE Substring(_, _)
Substring(text, k) ==
    IF text = << >> \/ k <= 0 THEN << >>
    ELSE IF Head(text).n <= k
         THEN <<Head(text)>> \o Substring(Tail(text), k - Head(text).n)
         ELSE <<Run(Head(text).ch, k)>>

\* message.length > 500 || /(.)\1{10,}/.test(message)
isSpam(message) ==
    \/ TextLength(message) > SPAM_LENGTH
    \/ \E i \in DOMAIN message :
          /\ message[i].n >= SPAM_RUN
          /\ message[i].ch \notin LineTerminators \cup {"xy"}

\* A payload field: absent (undefined), a number or a string.  A string
\* value is a sequence: the text of a message, <<"room", r>> or <<"chat", m>>
\* for a room id, <<u>> for a user id.
Undefined == [type |-> "undefined", val |-> << >>]
Num(n) == [type |-> "number", val |-> <<n>>]
Str(x) == [type |-> "string", val |-> x]
Bool(b) == [type |-> "boolean", val |-> <<b>>]
Truthy(field) ==
    CASE field.type = "undefined" -> FALSE
      [] field.type = "number" -> field.val # <<0>>
      [] field.type = "boolean" -> field.val = <<TRUE>>
      [] OTHER -> field.val # << >>

\* validatePayload: FALSE for a key whose value is truthy and not a string;
\* a payload that is null makes data[key] throw a TypeError
validatePayload(data, keys) ==
    \A key \in keys : ~(Truthy(data[key]) /\ data[key].type # "string")

\* validatePayload with a schema that names the type of every key
validatePayloadTypes(data, schema) ==
    \A key \in DOMAIN schema : ~(Truthy(data[key]) /\ data[key].type # schema[key])

\* ----------------------------------------- Spec: the socket event handlers
\* Sockets connect, emit events in any order and disconnect; the clock
\* advances in between and the timers fire.
Frame(changed) ==
    UNCHANGED <<messageChecks, accepted, nextMessage, typingUsers, typingTimers, backend, privateRequests, timerDue>>
    /\ changed

TickSteps == {30000, 31000, 60000}
ChatRefs == {<<"room", r>> : r \in RoomIds} \cup {<<"chat", m>> : m \in MatchIds}

\* No exception has escaped a handler.  Nothing catches one (there is no
\* try around the handlers and no 'uncaughtException' listener), so it ends
\* the server process.
Running == ~ret.threw

\* socket c emits an event: one more event of the run
Event(c) == Running /\ conn[c].state = "open" /\ OneMore

\* What the handler of an event of socket c did.  ok: the acknowledgement
\* reports success (for a handler without callback: it acted).  threw: an
\* exception escaped the handler; callback(...) throws a TypeError when the
\* client sent no acknowledgement callback (cb = FALSE).
Ack(c, cb, op, a, res, ok) ==
    [op |-> op, a |-> a, res |-> res, ok |-> ok, socket |-> c, threw |-> ~cb]

getOnlineUsers == {activeSockets[c] : c \in DOMAIN activeSockets} \cap DOMAIN users

Bind(c, userId, token) ==
    conn' = [conn EXCEPT ![c].currentUserId = userId,
                         ![c].currentSessionToken = token,
                         ![c].identities = @ \cup {userId}]

\* every connection is taken for an authenticated one
AuthenticatedAlways(userId) == TRUE

\* currentUserId as a condition: the connection has joined or reconnected
Authenticated(userId) == userId # None

Tick ==
    /\ Running
    /\ Advance(TickSteps, MaxNow)
    /\ ret' = Ret("tick", None, None, TRUE)
    /\ OneMore
    /\ Frame(UNCHANGED <<sessVars, repVars, matchVars, rateLimits, coordVars>>)

\* setInterval(() => this.cleanupExpiredSessions(), 30000)
CleanupTimer ==
    /\ Running
    /\ now >= StartTime + CLEANUP_INTERVAL
    /\ SetSM(cleanupExpiredSessions(SM, now))
    /\ ret' = Ret("cleanupExpiredSessions", None, None, TRUE)
    /\ OneMore
    /\ Frame(UNCHANGED <<now, nextToken, repVars, matchVars, rateLimits, coordVars>>)

\* io.on('connection'): socket ids are fresh, so they are taken in order
Connect(c) ==
    /\ conn[c].state = "idle"
    /\ \A d \in SocketIds : d < c => conn[d].state # "idle"
    /\ Running
    /\ conn' = [conn EXCEPT ![c].state = "open"]
    /\ ret' = Ack(c, TRUE, "connection", c, None, TRUE)
    /\ OneMore
    /\ Frame(UNCHANGED <<now, sessVars, repVars, matchVars, rateLimits, users,
                         activeSockets, userSockets, publicRooms,
                         privateChatRooms, nextUser>>)

\* the usernames sent: none, a number, a name, a name that is only markup
Usernames == {Undefined, Num(42), Str(<<Run("a", 1)>>), Str(<<Run("<b>", 1)>>)}
USERNAME_MAX == 30

UserJoin(c, username, cb) ==
    /\ Event(c)
    /\ IF \/ ~Truthy(username) \/ username.type # "string"
          \/ Substring(sanitize(username.val), USERNAME_MAX) = << >>
       THEN /\ ret' = Ack(c, cb, "userJoin", None, None, FALSE)
            /\ Frame(UNCHANGED <<now, sessVars, repVars, matchVars, rateLimits,
                                 coordVars>>)
       ELSE LET userId == nextUser + 1
                token == nextToken + 1
            IN /\ nextUser < MaxUsers
               /\ nextToken < MaxTokens
               /\ nextUser' = userId
               /\ nextToken' = token
               /\ users' = MapPut(users, userId, [socketId |-> c, status |-> "online"])
               /\ activeSockets' = MapPut(activeSockets, c, userId)
               /\ userSockets' =
                     MapPut(userSockets, userId,
                            (IF userId \in DOMAIN userSockets
                             THEN userSockets[userId] ELSE {}) \cup {c})
               /\ Bind(c, userId, token)
               /\ reputations' = initializeReputation(reputations, userId, now)
               /\ SetSM(createSession(SM, c, userId, token, now))
               /\ ret' = Ack(c, cb, "userJoin", None, userId, TRUE)
               /\ Frame(UNCHANGED <<now, matchVars, rateLimits, publicRooms,
                                    privateChatRooms>>)

Reverse(seq) == [i \in 1..Len(seq) |-> seq[Len(seq) + 1 - i]]

\* the reply with the buffered messages newest first
restoredDataNewestFirst(session) ==
    [userId |-> session.userId, messageBuffer |-> Reverse(session.messageBuffer),
     currentRoom |-> session.currentRoom, currentMatch |-> session.currentMatch]

\* the reply of a successful reconnectSession
restoredData(session) ==
    [userId |-> session.userId, messageBuffer |-> session.messageBuffer,
     currentRoom |-> session.currentRoom, currentMatch |-> session.currentMatch]

ReconnectSession(c, sessionToken, cb) ==
    LET r == reconnectSession(SM, sessionToken, c, now) IN
    /\ Event(c)
    /\ IF sessionToken = None \/ r.res = None
       THEN /\ ret' = Ack(c, cb, "reconnectSession", sessionToken, None, FALSE)
            /\ Frame(UNCHANGED <<now, sessVars, repVars, matchVars, rateLimits,
                                 coordVars>>)
       ELSE LET session == r.sm.sessions[sessionToken]
                userId == session.userId
            IN
            /\ SetSM(r.sm)
            /\ users' = MapPut(users, userId, [socketId |-> c, status |-> "online"])
            /\ activeSockets' = MapPut(activeSockets, c, userId)
            /\ Bind(c, userId, sessionToken)
            /\ ret' = Ack(c, cb, "reconnectSession", sessionToken,
                          restoredData(session), TRUE)
            /\ Frame(UNCHANGED <<now, nextToken, repVars, matchVars, rateLimits,
                                 userSockets, publicRooms, privateChatRooms,
                                 nextUser>>)

StartRandomChat(c, cb) ==
    LET u == conn[c].currentUserId
        token == conn[c].currentSessionToken
        queueResult == addToQueue(MM, reputations, u, now)
        match == findMatch(queueResult.mm, u, nextMatch + 1, now)
    IN
    /\ Event(c)
    /\ IF ~Authenticated(u)
       THEN /\ ret' = Ack(c, cb, "startRandomChat", None, None, FALSE)
            /\ Frame(UNCHANGED <<now, sessVars, repVars, matchVars, rateLimits,
                                 coordVars>>)
       ELSE IF ~queueResult.success
       THEN /\ reputations' = queueResult.reps
            /\ ret' = Ack(c, cb, "startRandomChat", None, None, FALSE)
            /\ Frame(UNCHANGED <<now, sessVars, matchVars, rateLimits, coordVars>>)
       ELSE IF match.partnerId = None
       THEN /\ reputations' = queueResult.reps
            /\ SetMM(queueResult.mm)
            /\ ret' = Ack(c, cb, "startRandomChat", None, None, TRUE)
            /\ Frame(UNCHANGED <<now, sessVars, nextMatch, rateLimits, coordVars>>)
       ELSE /\ nextMatch < MaxMatches
            /\ nextMatch' = nextMatch + 1
            /\ reputations' = queueResult.reps
            /\ SetMM(match.mm)
            /\ IF match.partnerId \notin DOMAIN users
               THEN /\ ret' = Ack(c, cb, "startRandomChat", None, None, FALSE)
                    /\ UNCHANGED <<sessVars, privateChatRooms>>
               ELSE /\ privateChatRooms' =
                          MapPut(privateChatRooms, match.matchId, {u, match.partnerId})
                    /\ SetSM(IF token # None
                             THEN updateSession(SM, token,
                                                "currentMatch" :> match.matchId, now).sm
                             ELSE SM)
                    /\ UNCHANGED nextToken
                    /\ ret' = Ack(c, cb, "startRandomChat", None, match.matchId, TRUE)
            /\ Frame(UNCHANGED <<now, rateLimits, users, activeSockets, userSockets,
                                 publicRooms, conn, nextUser>>)

CancelRandomChat(c) ==
    LET u == conn[c].currentUserId IN
    /\ Event(c)
    /\ SetMM(IF Authenticated(u) THEN removeFromQueue(MM, u) ELSE MM)
    /\ ret' = Ack(c, TRUE, "cancelRandomChat", None, None, Authenticated(u))
    /\ Frame(UNCHANGED <<now, sessVars, repVars, nextMatch, rateLimits, coordVars>>)

SkipMatch(c, chatId, cb) ==
    LET u == conn[c].currentUserId IN
    /\ Event(c)
    /\ IF ~Authenticated(u) \/ chatId = None \/ chatId \notin DOMAIN privateChatRooms
       THEN /\ ret' = Ack(c, cb, "skipMatch", chatId, None, FALSE)
            /\ Frame(UNCHANGED <<now, sessVars, repVars, matchVars, rateLimits,
                                 coordVars>>)
       ELSE LET participants == privateChatRooms[chatId] \ {u} IN
            /\ reputations' = recordSkip(reputations, u, now)
            /\ SetMM(endMatch(MM, chatId))
            /\ privateChatRooms' =
                  IF participants = {} THEN MapDel(privateChatRooms, chatId)
                  ELSE MapPut(privateChatRooms, chatId, participants)
            /\ ret' = Ack(c, cb, "skipMatch", chatId, None, TRUE)
            /\ Frame(UNCHANGED <<now, sessVars, nextMatch, rateLimits, users,
                                 activeSockets, userSockets, publicRooms, conn,
                                 nextUser>>)

\* an exception escaped the handler of an event of socket c
Throw(c, op, a) ==
    [op |-> op, a |-> a, res |-> None, ok |-> FALSE, socket |-> c, threw |-> TRUE]

AnyRoom == Str(<<"room", 1>>)
Text(runs) == Str(runs)

\* the payloads of sendMessage: null, { roomId, message } with texts that
\* are short, repetitive, long, markup only, and payloads with a key
\* missing or a number
Payload(roomId, message) == [isNull |-> FALSE, roomId |-> roomId, message |-> message]
NullMessage == [isNull |-> TRUE, roomId |-> Undefined, message |-> Undefined]
Messages ==
    { <<Run("a", 1)>>,
      <<Run("a", 10)>>,
      <<Run("a", 11)>>,
      <<Run("a", 6), Run("<b>", 1), Run("a", 6)>>,
      <<Run("a", 1), Run("\n", 12), Run("a", 1)>>,
      <<Run("xy", 500)>>,
      <<Run("xy", 501)>>,
      <<Run("<b>", 1)>> }
MessagePayloads ==
    {NullMessage, Payload(AnyRoom, Undefined), Payload(Undefined, Text(<<Run("a", 1)>>)),
     Payload(Num(7), Text(<<Run("a", 1)>>)), Payload(AnyRoom, Num(7))}
    \cup {Payload(AnyRoom, Text(m)) : m \in Messages}

SendMessage(c, data, cb) ==
    LET u == conn[c].currentUserId
        token == conn[c].currentSessionToken
        rl == checkRateLimit(rateLimits, u, "message", now)
        message == IF data.message.type = "string"
                   THEN Substring(sanitize(data.message.val), MESSAGE_MAX)
                   ELSE << >>
        messageData == [id |-> nextMessage + 1, roomId |-> data.roomId,
                        senderId |-> u, message |-> message, timestamp |-> now]
    IN
    /\ Event(c)
    /\ IF data.isNull
       THEN /\ ret' = Throw(c, "sendMessage", data)
            /\ Frame(UNCHANGED <<now, sessVars, repVars, matchVars, rateLimits,
                                 coordVars>>)
       ELSE IF ~validatePayload(data, {"roomId", "message"}) \/ ~Authenticated(u)
       THEN /\ ret' = Ack(c, cb, "sendMessage", data, None, FALSE)
            /\ Frame(UNCHANGED <<now, sessVars, repVars, matchVars, rateLimits,
                                 coordVars>>)
       ELSE IF ~rl.allowed \/ message = << >> \/ u \notin DOMAIN users
       THEN /\ rateLimits' = rl.limits
            /\ ret' = Ack(c, cb, "sendMessage", data, None, FALSE)
            /\ Frame(UNCHANGED <<now, sessVars, repVars, matchVars, coordVars>>)
       ELSE IF isSpam(message)
       THEN /\ rateLimits' = rl.limits
            /\ reputations' = recordMessage(reputations, u, TRUE, now)
            /\ ret' = Ack(c, cb, "sendMessage", data, None, FALSE)
            /\ Frame(UNCHANGED <<now, sessVars, matchVars, coordVars>>)
       ELSE /\ rateLimits' = rl.limits
            /\ reputations' = recordMessage(reputations, u, FALSE, now)
            /\ nextMessage' = nextMessage + 1
            /\ SetSM(IF token # None
                     THEN addMessageToBuffer(SM, token, messageData)
                     ELSE SM)
            /\ ret' = Ack(c, cb, "sendMessage", data, messageData, TRUE)
            /\ UNCHANGED <<now, nextToken, matchVars, messageChecks, accepted, users,
                           activeSockets, userSockets, publicRooms,
                           privateChatRooms, conn, nextUser, typingUsers,
                           typingTimers, backend, privateRequests, timerDue>>

TYPING_TIMEOUT == 3000
TypingRooms == {Undefined, AnyRoom}

Typing(c, roomId) ==
    LET u == conn[c].currentUserId
        rl == checkRateLimit(rateLimits, u, "typing", now)
    IN
    /\ Event(c)
    /\ IF ~Authenticated(u) \/ ~Truthy(roomId)
       THEN /\ ret' = Ack(c, TRUE, "typing", roomId, None, FALSE)
            /\ Frame(UNCHANGED <<now, sessVars, repVars, matchVars, rateLimits,
                                 coordVars>>)
       ELSE IF ~rl.allowed
       THEN /\ rateLimits' = rl.limits
            /\ ret' = Ack(c, TRUE, "typing", roomId, None, FALSE)
            /\ Frame(UNCHANGED <<now, sessVars, repVars, matchVars, coordVars>>)
       ELSE /\ rateLimits' = rl.limits
            /\ typingUsers' =
                  MapPut(typingUsers, roomId.val,
                         (IF roomId.val \in DOMAIN typingUsers
                          THEN typingUsers[roomId.val] ELSE {}) \cup {u})
            /\ typingTimers' = Append(typingTimers,
                  [socket |-> c, roomId |-> roomId.val, due |-> now + TYPING_TIMEOUT])
            /\ ret' = Ack(c, TRUE, "typing", roomId, None, TRUE)
            /\ UNCHANGED <<now, sessVars, repVars, matchVars, messageChecks, accepted, users,
                           activeSockets, userSockets, publicRooms,
                           privateChatRooms, conn, nextUser, nextMessage, backend, privateRequests, timerDue>>

\* the room's typing set once the callback of timer tm has run
Cleared(tm) ==
    IF tm.roomId \in DOMAIN typingUsers
    THEN [typingUsers EXCEPT ![tm.roomId] = @ \ {conn[tm.socket].currentUserId}]
    ELSE typingUsers

\* setTimeout(() => { typing.delete(currentUserId) }, 3000): the callback
\* reads the connection's currentUserId when it runs.  Every typing event
\* sets a timer of its own, and timers of one delay run in the order in
\* which they were set.
TypingTimeout ==
    /\ Running
    /\ typingTimers # << >>
    /\ now >= Head(typingTimers).due
    /\ typingTimers' = Tail(typingTimers)
    /\ typingUsers' = Cleared(Head(typingTimers))
    /\ ret' = Ret("typingTimeout", None, None, TRUE)
    /\ UNCHANGED <<now, sessVars, repVars, matchVars, rateLimits, messageChecks, accepted,
                   users, activeSockets, userSockets, publicRooms,
                   privateChatRooms, conn, nextUser, nextMessage, steps, backend, privateRequests, timerDue>>

\* the payloads of reportUser: null, { targetUserId, reason }, and payloads
\* with a key missing or a number
Report(targetUserId, reason) ==
    [isNull |-> FALSE, targetUserId |-> targetUserId, reason |-> reason]
NullReport == [isNull |-> TRUE, targetUserId |-> Undefined, reason |-> Undefined]
AnyReason == Text(<<Run("a", 1)>>)
\* const userId = `user-${uuidv4()}`: a client can name the users created
\* so far; any other string it sends is the id of no user, now or later
Stranger == MaxUsers + 1
Created == 1..nextUser
ReportPayloads ==
    {NullReport, Report(Undefined, AnyReason), Report(Num(7), AnyReason)}
    \cup {Report(Str(<<u>>), AnyReason) : u \in Created \cup {Stranger}}
    \cup {Report(Str(<<u>>), Undefined) : u \in Created \cup {Stranger}}

\* the key of the reputations map a targetUserId names; undefined is a key,
\* and so is a string that is the id of no user
KeyOf(field) ==
    IF field.type # "string" THEN None
    ELSE IF field.val[1] \in Created THEN field.val[1] ELSE Stranger

ReportUser(c, data, cb) ==
    LET u == conn[c].currentUserId
        rl == checkRateLimit(rateLimits, u, "report", now)
    IN
    /\ Event(c)
    /\ IF data.isNull
       THEN /\ ret' = Throw(c, "reportUser", data)
            /\ Frame(UNCHANGED <<now, sessVars, repVars, matchVars, rateLimits,
                                 coordVars>>)
       ELSE IF ~validatePayload(data, {"targetUserId", "reason"}) \/ ~Authenticated(u)
       THEN /\ ret' = Ack(c, cb, "reportUser", data, None, FALSE)
            /\ Frame(UNCHANGED <<now, sessVars, repVars, matchVars, rateLimits,
                                 coordVars>>)
       ELSE IF ~rl.allowed
       THEN /\ rateLimits' = rl.limits
            /\ ret' = Ack(c, cb, "reportUser", data, None, FALSE)
            /\ Frame(UNCHANGED <<now, sessVars, repVars, matchVars, coordVars>>)
       ELSE /\ rateLimits' = rl.limits
            /\ reputations' = recordReport(reputations, KeyOf(data.targetUserId), now)
            /\ ret' = Ack(c, cb, "reportUser", data, None, TRUE)
            /\ Frame(UNCHANGED <<now, sessVars, matchVars, coordVars>>)

JoinRoom(c, roomId, cb) ==
    LET u == conn[c].currentUserId
        token == conn[c].currentSessionToken
    IN
    /\ Event(c)
    /\ IF ~Authenticated(u) \/ roomId = None \/ roomId \notin DOMAIN publicRooms
       THEN /\ ret' = Ack(c, cb, "joinRoom", roomId, None, FALSE)
            /\ Frame(UNCHANGED <<now, sessVars, repVars, matchVars, rateLimits,
                                 coordVars>>)
       ELSE /\ publicRooms' = [publicRooms EXCEPT ![roomId] = @ \cup {u}]
            /\ SetSM(IF token # None
                     THEN updateSession(SM, token, "currentRoom" :> roomId, now).sm
                     ELSE SM)
            /\ ret' = Ack(c, cb, "joinRoom", roomId, None, TRUE)
            /\ Frame(UNCHANGED <<now, nextToken, repVars, matchVars, rateLimits,
                                 users, activeSockets, userSockets,
                                 privateChatRooms, conn, nextUser>>)

\* ref: the room id names a public room or a private chat
LeaveRoom(c, ref) ==
    LET u == conn[c].currentUserId IN
    /\ Event(c)
    /\ ret' = Ack(c, TRUE, "leaveRoom", ref[2], None, Authenticated(u))
    /\ IF ~Authenticated(u)
       THEN UNCHANGED <<publicRooms, privateChatRooms>>
       ELSE IF ref[1] = "room"
       THEN /\ publicRooms' = [publicRooms EXCEPT ![ref[2]] = @ \ {u}]
            /\ UNCHANGED privateChatRooms
       ELSE /\ privateChatRooms' =
                  IF ref[2] \in DOMAIN privateChatRooms
                  THEN [privateChatRooms EXCEPT ![ref[2]] = @ \ {u}]
                  ELSE privateChatRooms
            /\ UNCHANGED publicRooms
    /\ Frame(UNCHANGED <<now, sessVars, repVars, matchVars, rateLimits, users,
                         activeSockets, userSockets, conn, nextUser>>)

\* what the handlers read and write of the presence maps, the rooms and the
\* matchmaking
Server ==
    [activeSockets |-> activeSockets, userSockets |-> userSockets, users |-> users,
     publicRooms |-> publicRooms, privateChatRooms |-> privateChatRooms,
     waitingQueue |-> waitingQueue, userMetadata |-> userMetadata,
     activeMatches |-> activeMatches]

\* socket.on('disconnect') of socket c whose closure holds currentUserId = u
disconnect(S, c, u) ==
    LET emptied == {m \in DOMAIN S.privateChatRooms : S.privateChatRooms[m] = {u}}
        mm == removeFromQueue(
                 [waitingQueue |-> S.waitingQueue, userMetadata |-> S.userMetadata,
                  activeMatches |-> MapDelAll(S.activeMatches, emptied)], u)
    IN
    IF ~Authenticated(u) THEN S
    ELSE [activeSockets |-> MapDel(S.activeSockets, c),
          userSockets |->
             IF u \in DOMAIN S.userSockets
             THEN IF S.userSockets[u] \ {c} = {} THEN MapDel(S.userSockets, u)
                  ELSE MapPut(S.userSockets, u, S.userSockets[u] \ {c})
             ELSE S.userSockets,
          users |-> IF u \in DOMAIN S.users
                    THEN [S.users EXCEPT ![u].status = "offline"] ELSE S.users,
          publicRooms |-> [r \in DOMAIN S.publicRooms |-> S.publicRooms[r] \ {u}],
          privateChatRooms |->
             [m \in DOMAIN S.privateChatRooms \ emptied |-> S.privateChatRooms[m] \ {u}],
          waitingQueue |-> mm.waitingQueue,
          userMetadata |-> mm.userMetadata,
          activeMatches |-> mm.activeMatches]

SetServer(S) ==
    /\ activeSockets' = S.activeSockets
    /\ userSockets' = S.userSockets
    /\ users' = S.users
    /\ publicRooms' = S.publicRooms
    /\ privateChatRooms' = S.privateChatRooms
    /\ waitingQueue' = S.waitingQueue
    /\ userMetadata' = S.userMetadata
    /\ activeMatches' = S.activeMatches

Disconnect(c) ==
    LET u == conn[c].currentUserId IN
    /\ Event(c)
    /\ conn' = [conn EXCEPT ![c].state = "closed", ![c].closedAt = now]
    /\ ret' = Ack(c, TRUE, "disconnect", c, None, Authenticated(u))
    /\ SetServer(disconnect(Server, c, u))
    /\ Frame(UNCHANGED <<now, sessVars, repVars, nextMatch, rateLimits, nextUser>>)

\* a run of at most MaxSteps events
Long == steps < MaxSteps

Next ==
    \/ Long /\ Tick
    \/ Long /\ CleanupTimer
    \/ TypingTimeout
    \/ Long /\ \E c \in SocketIds : Connect(c)
    \/ Long /\ \E c \in SocketIds, name \in Usernames, cb \in BOOLEAN :
                  UserJoin(c, name, cb)
    \/ Long /\ \E c \in SocketIds, t \in TokenIds \cup {None}, cb \in BOOLEAN :
                  ReconnectSession(c, t, cb)
    \/ Long /\ \E c \in SocketIds, cb \in BOOLEAN : StartRandomChat(c, cb)
    \/ Long /\ \E c \in SocketIds : CancelRandomChat(c)
    \/ Long /\ \E c \in SocketIds, m \in MatchIds \cup {None}, cb \in BOOLEAN :
                  SkipMatch(c, m, cb)
    \/ Long /\ \E c \in SocketIds, data \in MessagePayloads, cb \in BOOLEAN :
                  SendMessage(c, data, cb)
    \/ Long /\ \E c \in SocketIds, roomId \in TypingRooms : Typing(c, roomId)
    \/ Long /\ \E c \in SocketIds, data \in ReportPayloads, cb \in BOOLEAN :
                  ReportUser(c, data, cb)
    \/ Long /\ \E c \in SocketIds, r \in RoomIds \cup {None}, cb \in BOOLEAN :
                  JoinRoom(c, r, cb)
    \/ Long /\ \E c \in SocketIds, ref \in ChatRefs : LeaveRoom(c, ref)
    \/ Long /\ \E c \in SocketIds : Disconnect(c)

Spec == Init /\ [][Next]_vars

\* u's connections: the open sockets that authenticated as u
OpenConnections(u) ==
    {c \in SocketIds : conn[c].state = "open" /\ u \in conn[c].identities}

InSomeRoom(u) ==
    \/ \E r \in DOMAIN publicRooms : u \in publicRooms[r]
    \/ \E m \in DOMAIN privateChatRooms : u \in privateChatRooms[m]

\* C4: once the disconnect of a user's last open connection has been
\* processed, the user is in no public room, in no private or random room,
\* in no matchmaking bucket and not in the list of getOnlineUsers.
C4_LastDisconnectRemovesUser ==
    \A u \in DOMAIN users :
        OpenConnections(u) = {}
        => /\ ~InSomeRoom(u)
           /\ \A p \in Priorities : u \notin Range(waitingQueue[p])
           /\ u \notin getOnlineUsers

\* C7: a reconnectSession event with the session token of a connection that
\* disconnected less than SESSION_TTL ago succeeds.
C7_SessionKeptSixtySecondsAfterDisconnect ==
    [][(/\ ret'.op = "reconnectSession"
        /\ \E c \in SocketIds :
              /\ conn[c].state = "closed"
              /\ conn[c].currentSessionToken # None
              /\ conn[c].currentSessionToken = ret'.a
              /\ now < conn[c].closedAt + SESSION_TTL)
       => ret'.ok]_vars

\* the connections the presence maps record for u
SocketsOf(u) == IF u \in DOMAIN userSockets THEN userSockets[u] ELSE {}

\* C11: after a userJoin, reconnectSession or disconnect event,
\* activeSockets[c] = u exactly when c is in userSockets[u], and u is
\* online (listed by getOnlineUsers with status 'online') exactly when
\* userSockets[u] is not empty.
C11_PresenceMapsAgree ==
    ret.op \in {"userJoin", "reconnectSession", "disconnect"}
    => \A u \in UserIds :
          /\ \A c \in SocketIds :
                (c \in DOMAIN activeSockets /\ activeSockets[c] = u)
                <=> c \in SocketsOf(u)
          /\ (u \in getOnlineUsers /\ users[u].status = "online")
             <=> SocketsOf(u) # {}

\* the open connections whose current identity is u
ConnectionsAs(u) ==
    {c \in SocketIds : conn[c].state = "open" /\ conn[c].currentUserId = u}

\* socket c disconnects in this step
Disconnects(c) == conn[c].state = "open" /\ conn'[c].state = "closed"

\* C12: when a user has two or more open connections, the disconnect of one
\* of them leaves the user's online status, room memberships and queue
\* entry unchanged.
C12_OtherConnectionKeepsUserPresent ==
    [][\A c \in SocketIds :
          LET u == conn[c].currentUserId IN
          (Disconnects(c) /\ u # None /\ ConnectionsAs(u) \ {c} # {})
          => /\ (u \in DOMAIN users => users'[u].status = users[u].status)
             /\ (u \in getOnlineUsers => u \in getOnlineUsers')
             /\ \A r \in DOMAIN publicRooms :
                   u \in publicRooms[r] => u \in publicRooms'[r]
             /\ \A m \in DOMAIN privateChatRooms :
                   u \in privateChatRooms[m]
                   => m \in DOMAIN privateChatRooms' /\ u \in privateChatRooms'[m]
             /\ \A p \in Priorities :
                   u \in Range(waitingQueue[p]) => u \in Range(waitingQueue'[p])]_vars

\* the handler of event op ran in this step
Handled(op) == steps' = steps + 1 /\ ret'.op = op

\* text holds a run of SPAM_RUN or more identical consecutive characters
HasLongRun(text) ==
    \E i \in DOMAIN text : text[i].n >= SPAM_RUN /\ text[i].ch # "xy"

\* the content of a sendMessage payload after sanitize
Content(data) ==
    IF data.message.type = "string"
    THEN Substring(sanitize(data.message.val), MESSAGE_MAX) ELSE << >>

\* sendMessage with payload data on socket c gets as far as the spam check
ReachesSpamCheck(c, data) ==
    /\ ~data.isNull
    /\ validatePayload(data, {"roomId", "message"})
    /\ conn[c].currentUserId # None
    /\ conn[c].currentUserId \in DOMAIN users
    /\ conn[c].currentUserId \in DOMAIN reputations
    /\ checkRateLimit(rateLimits, conn[c].currentUserId, "message", now).allowed
    /\ Content(data) # << >>

\* C17: a sendMessage whose sanitized content holds a run of 11 or more
\* identical consecutive characters or is longer than 500 characters is
\* rejected, not buffered, and costs the sender 5 points of score (not
\* below 0), 10 of spamScore and one messageCount; any other message
\* lowers spamScore by 1 (not below 0) and leaves score unchanged.
C17_SpamRejectedAndPenalised ==
    [][\A c \in SocketIds :
          (Handled("sendMessage") /\ ret'.socket = c /\ ReachesSpamCheck(c, ret'.a))
          => LET u == conn[c].currentUserId
                 rep == reputations[u]
                 content == Content(ret'.a)
             IN IF HasLongRun(content) \/ TextLength(content) > SPAM_LENGTH
                THEN /\ ~ret'.ok
                     /\ sessions' = sessions
                     /\ reputations'[u].score = Max(0, rep.score - 5)
                     /\ reputations'[u].spamScore = rep.spamScore + 10
                     /\ reputations'[u].messageCount = rep.messageCount + 1
                ELSE /\ reputations'[u].spamScore = Max(0, rep.spamScore - 1)
                     /\ reputations'[u].score = rep.score]_vars

\* a payload object in which one of the keys is missing or is not a string
Malformed(data, keys) ==
    ~data.isNull /\ \E key \in keys : data[key].type # "string"

\* C18: a sendMessage or reportUser event whose payload misses a required
\* key or carries it with the wrong primitive type is answered with an
\* error and changes no rate-limiter record, reputation record or session
\* buffer.
C18_MalformedPayloadChangesNothing ==
    [][(\/ Handled("sendMessage") /\ Malformed(ret'.a, {"roomId", "message"})
        \/ Handled("reportUser") /\ Malformed(ret'.a, {"targetUserId", "reason"}))
       => /\ ~ret'.ok
          /\ rateLimits' = rateLimits
          /\ reputations' = reputations
          /\ sessions' = sessions]_vars

\* C19: for every payload, null included, and with or without an
\* acknowledgement callback, no handler lets an exception escape.
C19_NoExceptionEscapes == ~ret.threw

\* ------------------------------------- SpecAuth: short runs of the handlers
\* a run of at most MaxAuthSteps steps
Short == steps < MaxAuthSteps

NextAuth ==
    \/ Short /\ Tick
    \/ Short /\ CleanupTimer
    \/ Short /\ TypingTimeout
    \/ Short /\ \E c \in SocketIds : Connect(c)
    \/ Short /\ \E c \in SocketIds, name \in Usernames, cb \in BOOLEAN :
                   UserJoin(c, name, cb)
    \/ Short /\ \E c \in SocketIds, t \in TokenIds \cup {None}, cb \in BOOLEAN :
                   ReconnectSession(c, t, cb)
    \/ Short /\ \E c \in SocketIds, cb \in BOOLEAN : StartRandomChat(c, cb)
    \/ Short /\ \E c \in SocketIds : CancelRandomChat(c)
    \/ Short /\ \E c \in SocketIds, m \in MatchIds \cup {None}, cb \in BOOLEAN :
                   SkipMatch(c, m, cb)
    \/ Short /\ \E c \in SocketIds, data \in MessagePayloads, cb \in BOOLEAN :
                   SendMessage(c, data, cb)
    \/ Short /\ \E c \in SocketIds, roomId \in TypingRooms : Typing(c, roomId)
    \/ Short /\ \E c \in SocketIds, data \in ReportPayloads, cb \in BOOLEAN :
                   ReportUser(c, data, cb)
    \/ Short /\ \E c \in SocketIds, r \in RoomIds \cup {None}, cb \in BOOLEAN :
                   JoinRoom(c, r, cb)
    \/ Short /\ \E c \in SocketIds, ref \in ChatRefs : LeaveRoom(c, ref)
    \/ Short /\ \E c \in SocketIds : Disconnect(c)

SpecAuth == Init /\ [][NextAuth]_vars

ActionEvents ==
    {"startRandomChat", "cancelRandomChat", "skipMatch", "sendMessage", "typing",
     "reportUser", "joinRoom", "leaveRoom"}

\* C20: an action event or the disconnect of a connection that has not
\* authenticated is rejected and leaves the matchmaking queue, the rooms,
\* the reputation records, the rate-limiter records, the sessions and the
\* presence maps unchanged.
C20_UnauthenticatedChangesNothing ==
    [][\A c \in SocketIds :
          (/\ steps' = steps + 1
           /\ ret'.op \in ActionEvents \cup {"disconnect"}
           /\ ret'.socket = c
           /\ conn[c].currentUserId = None)
          => /\ ~ret'.ok
             /\ UNCHANGED <<matchVars, publicRooms, privateChatRooms, reputations,
                            rateLimits, sessVars, users, activeSockets,
                            userSockets, typingUsers>>]_vars

\* an unauthenticated connection has emitted an action event while another
\* user waits in the queue
C20_Witness ==
    /\ ret.op \in ActionEvents
    /\ conn[ret.socket].currentUserId = None
    /\ ~ret.ok
    /\ \E p \in Priorities : waitingQueue[p] # << >>
    /\ DOMAIN sessions # {}

\* -------------------------- SpecRecon: chatting, leaving and reconnecting
\* One name, two texts, acknowledged events; the reconnect also without
\* callback.
ReconNames == {Str(<<Run("a", 1)>>)}
ReconPayloads == {Payload(AnyRoom, Text(<<Run("a", n)>>)) : n \in {1, 10}}
Brief == steps < MaxReconSteps

NextRecon ==
    \/ Brief /\ Tick
    \/ Brief /\ CleanupTimer
    \/ Brief /\ \E c \in SocketIds : Connect(c)
    \/ Brief /\ \E c \in SocketIds, name \in ReconNames : UserJoin(c, name, TRUE)
    \/ Brief /\ \E c \in SocketIds, t \in TokenIds, cb \in BOOLEAN :
                   ReconnectSession(c, t, cb)
    \/ Brief /\ \E c \in SocketIds, data \in ReconPayloads : SendMessage(c, data, TRUE)
    \/ Brief /\ \E c \in SocketIds, r \in RoomIds : JoinRoom(c, r, TRUE)
    \/ Brief /\ \E c \in SocketIds : Disconnect(c)

SpecRecon == Init /\ [][NextRecon]_vars

\* the messages are in the order in which their ids were issued
InOriginalOrder(buffer) ==
    \A i, j \in DOMAIN buffer : i < j => buffer[i].id < buffer[j].id

\* C13: a reconnectSession with the token of a session whose
\* now - lastActivity is below 60 s succeeds and replies with the session's
\* currentRoom and its buffered messages in their original order; after
\* more than 60 s of inactivity it is rejected and changes none of
\* activeSockets, users, sessions and socketToSession.
C13_ReconnectRestoresOrExpires ==
    [][\A t \in TokenIds :
          (Handled("reconnectSession") /\ ret'.a = t /\ t <= nextToken)
          => IF t \in DOMAIN sessions /\ now - sessions[t].lastActivity < SESSION_TTL
             THEN /\ ret'.ok
                  /\ ret'.res.currentRoom = sessions[t].currentRoom
                  /\ ret'.res.messageBuffer = sessions[t].messageBuffer
                  /\ InOriginalOrder(ret'.res.messageBuffer)
             ELSE (t \notin DOMAIN sessions
                   \/ now - sessions[t].lastActivity > SESSION_TTL)
                  => /\ ~ret'.ok
                     /\ UNCHANGED <<activeSockets, users, sessions, socketToSession>>]_vars

\* a reconnect within the TTL has returned a room and two buffered messages
C13_Witness ==
    /\ ret.op = "reconnectSession"
    /\ ret.ok
    /\ ret.res.currentRoom # None
    /\ Len(ret.res.messageBuffer) >= 2
    /\ now - sessions[ret.a].lastActivity = 0

\* the open connections the server maps to user u
MappedTo(u) ==
    {c \in SocketIds : /\ conn[c].state = "open"
                       /\ \/ c \in DOMAIN activeSockets /\ activeSockets[c] = u
                          \/ conn[c].currentUserId = u}

\* C23: once reconnectSession(token, c2) has succeeded, no other open
\* connection is still associated with the session's user: the connection
\* the session used before is released, also when two connections
\* reconnect with one token one after the other.
C23_PreviousConnectionReleased ==
    (ret.op = "reconnectSession" /\ ret.ok)
    => MappedTo(sessions[ret.a].userId) \subseteq {ret.socket}

\* C24: a participant of public room R who disconnects and then reconnects
\* within the session TTL is a member of R's participant set again once the
\* reconnect has succeeded.
C24_ReconnectRestoresMembership ==
    [][\A r \in RoomIds :
          (/\ Handled("reconnectSession")
           /\ ret'.ok
           /\ ret'.res.currentRoom = r
           /\ r \in DOMAIN publicRooms
           /\ sessions[ret'.a].userId \notin DOMAIN userSockets)
          => sessions[ret'.a].userId \in publicRooms'[r]]_vars

\* ------------------------------------------- life of a private/random room
\* Two users are paired by startRandomChat and leave their room by
\* skipMatch, leaveRoom or disconnect, in any order.  Every connection ends
\* at some time (the client closes it or the ping times out), so disconnect
\* is weakly fair; nothing obliges a client to emit any other event.
Busy == steps < MaxRoomSteps

NextRooms ==
    \/ Busy /\ Tick
    \/ Busy /\ \E c \in SocketIds : Connect(c)
    \/ Busy /\ \E c \in SocketIds, name \in ReconNames : UserJoin(c, name, TRUE)
    \/ Busy /\ \E c \in SocketIds : StartRandomChat(c, TRUE)
    \/ Busy /\ \E c \in SocketIds, m \in MatchIds : SkipMatch(c, m, TRUE)
    \/ Busy /\ \E c \in SocketIds, m \in MatchIds : LeaveRoom(c, <<"chat", m>>)
    \/ \E c \in SocketIds : Disconnect(c)

SpecRooms ==
    Init /\ [][NextRooms]_vars /\ WF_vars(\E c \in SocketIds : Disconnect(c))

\* C22: every private/random room whose participant set has become empty,
\* by whatever order of skipMatch, leaveRoom and disconnect of its two
\* participants, is eventually removed from privateChatRooms, and its record
\* in activeMatches with it.
C22_EmptyRoomEventuallyRemoved ==
    \A m \in MatchIds :
        (m \in DOMAIN privateChatRooms /\ privateChatRooms[m] = {})
        ~> (m \notin DOMAIN privateChatRooms /\ m \notin DOMAIN activeMatches)

\* ------------------------------------------------------- the legacy backend
\* The second server program of the repository (the "fixed" Express and
\* Socket.IO server).  It keeps its state in Maps of the same names; while it
\* runs (backend = "legacy")
\*   users            : userId -> [isOnline, lastSeen]
\*   waitingQueue     : the Map userId -> timestamp, as the sequence of its
\*                      entries in insertion order
\*   privateChatRooms : chatId -> [participants, createdAt, emptySince], where
\*                      emptySince is a history field: the time at which the
\*                      participant set became empty (None before that)
\* and activeSockets, userSockets, publicRooms and conn are as above, with
\* conn[c].currentUserId standing for socket.userId.
ROOM_GRACE == 60000
QUEUE_STALE == 60000
JOB_INTERVAL == 30000
LEGACY_NAME_MIN == 2
AGE_MIN == 13
AGE_MAX == 120

LegacyInit ==
    /\ now = StartTime
    /\ sessions = EmptyMap
    /\ socketToSession = EmptyMap
    /\ nextToken = 0
    /\ reputations = EmptyMap
    /\ waitingQueue = << >>
    /\ userMetadata = EmptyMap
    /\ activeMatches = EmptyMap
    /\ nextMatch = 0
    /\ rateLimits = EmptyMap
    /\ messageChecks = EmptyMap
    /\ accepted = EmptyMap
    /\ users = EmptyMap
    /\ activeSockets = EmptyMap
    /\ userSockets = EmptyMap
    /\ publicRooms = [r \in RoomIds |-> {}]
    /\ privateChatRooms = EmptyMap
    /\ conn = [c \in SocketIds |->
                 [state |-> "idle", currentUserId |-> None,
                  currentSessionToken |-> None,
                  identities |-> {}, closedAt |-> None]]
    /\ nextUser = 0
    /\ nextMessage = 0
    /\ typingUsers = EmptyMap
    /\ typingTimers = << >>
    /\ backend = "legacy"
    /\ privateRequests = {}
    /\ timerDue = [job |-> StartTime + JOB_INTERVAL]
    /\ steps = 0
    /\ ret = Ret("init", None, None, TRUE)

\* the Maps of the legacy server
Legacy ==
    [users |-> users, activeSockets |-> activeSockets, userSockets |-> userSockets,
     publicRooms |-> publicRooms, waitingQueue |-> waitingQueue,
     privateChatRooms |-> privateChatRooms]

SetLegacy(S) ==
    /\ users' = S.users
    /\ activeSockets' = S.activeSockets
    /\ userSockets' = S.userSockets
    /\ publicRooms' = S.publicRooms
    /\ waitingQueue' = S.waitingQueue
    /\ privateChatRooms' = S.privateChatRooms

\* what the legacy handlers leave alone, but for message:send and typing
\* (the rate limits), private:request and the cleanup job
LegacyFrame ==
    UNCHANGED <<sessVars, repVars, userMetadata, activeMatches, rateVars,
                nextMessage, typingUsers, typingTimers, backend, privateRequests, timerDue>>

\* waitingQueue.has(userId) / waitingQueue.delete(userId)
Queued(queue) == {queue[i].userId : i \in DOMAIN queue}
queueDelete(queue, userId) == SelectSeq(queue, LAMBDA e : e.userId # userId)

\* room.participants.delete(userId) on a private room, at time t
roomLeave(room, userId, t) ==
    [room EXCEPT !.participants = @ \ {userId},
                 !.emptySince = IF @ = None /\ room.participants # {}
                                     /\ room.participants \ {userId} = {}
                                THEN t ELSE @]

cleanupEmptyRooms(rooms, t) ==
    LET stale == {m \in DOMAIN rooms : /\ rooms[m].participants = {}
                                       /\ t - rooms[m].createdAt > ROOM_GRACE}
    IN MapDelAll(rooms, stale)

\* the callback of the cleanup setInterval, running at time t
cleanupJob(S, t) ==
    [S EXCEPT !.privateChatRooms = cleanupEmptyRooms(@, t),
              !.waitingQueue = SelectSeq(@, LAMBDA e : ~(t - e.timestamp > QUEUE_STALE))]

\* if (!userSockets.has(userId)), as if it asked whether any socket is left
lastSocketGoneNoSocketLeft(sockets, active, userId) == DOMAIN active = {}

\* if (!userSockets.has(userId)): the user's last socket has gone
lastSocketGone(sockets, active, userId) == userId \notin DOMAIN sockets

\* socket.on('disconnect') of socket c of user userId, at time t
legacyDisconnect(S, c, userId, t) ==
    LET sockets == IF userId \in DOMAIN S.userSockets
                   THEN IF S.userSockets[userId] \ {c} = {}
                        THEN MapDel(S.userSockets, userId)
                        ELSE MapPut(S.userSockets, userId, S.userSockets[userId] \ {c})
                   ELSE S.userSockets
        S1 == [S EXCEPT !.activeSockets = MapDel(@, c),
                        !.waitingQueue = queueDelete(@, userId),
                        !.userSockets = sockets]
    IN
    IF lastSocketGone(sockets, S1.activeSockets, userId)
    THEN [S1 EXCEPT
            !.publicRooms = [r \in DOMAIN @ |-> @[r] \ {userId}],
            !.privateChatRooms =
                [m \in DOMAIN @ |->
                    IF userId \in @[m].participants THEN roomLeave(@[m], userId, t)
                    ELSE @[m]],
            !.users = IF userId \in DOMAIN @
                      THEN [@ EXCEPT ![userId] = [isOnline |-> FALSE, lastSeen |-> t]]
                      ELSE @]
    ELSE S1

\* an event of open socket c reaches its handler
LegacyEvent(c) == backend = "legacy" /\ conn[c].state = "open" /\ OneMore

LegacyNames == {Str(<<Run("a", 1)>>), Str(<<Run("a", 2)>>)}
Ages == {12, 13}

\* app.post('/api/login')
Login(username, age) ==
    /\ backend = "legacy"
    /\ OneMore
    /\ IF \/ ~Truthy(username) \/ username.type # "string"
          \/ TextLength(TrimRight(TrimLeft(username.val))) < LEGACY_NAME_MIN
          \/ age = 0 \/ age < AGE_MIN \/ age > AGE_MAX
       THEN /\ ret' = Ret("login", None, None, FALSE)
            /\ UNCHANGED <<users, nextUser>>
       ELSE /\ nextUser < MaxUsers
            /\ nextUser' = nextUser + 1
            /\ users' = MapPut(users, nextUser + 1, [isOnline |-> TRUE, lastSeen |-> now])
            /\ ret' = Ret("login", None, nextUser + 1, TRUE)
    /\ UNCHANGED <<now, activeSockets, userSockets, publicRooms, waitingQueue,
                   privateChatRooms, conn, nextMatch>>
    /\ LegacyFrame

\* io.use(...) and io.on('connection'): a fresh socket presents a token
LegacyConnect(c, token) ==
    /\ backend = "legacy"
    /\ conn[c].state = "idle"
    /\ \A d \in SocketIds : d < c => conn[d].state # "idle"
    /\ OneMore
    /\ IF token = None \/ token \notin DOMAIN users
       THEN /\ ret' = Ack(c, TRUE, "connection", token, None, FALSE)
            /\ UNCHANGED <<users, activeSockets, userSockets, conn>>
       ELSE /\ conn' = [conn EXCEPT ![c].state = "open", ![c].currentUserId = token,
                                    ![c].identities = {token}]
            /\ activeSockets' = MapPut(activeSockets, c, token)
            /\ userSockets' =
                  MapPut(userSockets, token,
                         (IF token \in DOMAIN userSockets
                          THEN userSockets[token] ELSE {}) \cup {c})
            /\ users' = [users EXCEPT ![token] = [isOnline |-> TRUE, lastSeen |-> now]]
            /\ ret' = Ack(c, TRUE, "connection", token, None, TRUE)
    /\ UNCHANGED <<now, publicRooms, waitingQueue, privateChatRooms, nextUser,
                   nextMatch>>
    /\ LegacyFrame

\* Array.from(set)[0]: socket ids are issued in order, so the socket a user
\* connected first is the one with the least id
First(sockets) == CHOOSE s \in sockets : \A t \in sockets : s <= t

\* socket.on('random:search')
RandomSearch(c) ==
    LET userId == conn[c].currentUserId
        queue == queueDelete(waitingQueue, userId)
        availablePartners ==
            SelectSeq(queue, LAMBDA e : /\ e.userId # userId
                                        /\ e.userId \in DOMAIN userSockets
                                        /\ userSockets[e.userId] # {})
        entry == [userId |-> userId, timestamp |-> now]
    IN
    /\ LegacyEvent(c)
    /\ IF availablePartners # << >>
       THEN LET partnerId == availablePartners[1].userId
                partnerSocketId == First(userSockets[partnerId])
            IN IF conn[partnerSocketId].state # "open"
               THEN /\ waitingQueue' = Append(queueDelete(queue, partnerId), entry)
                    /\ ret' = Ack(c, TRUE, "random:search", userId, None, FALSE)
                    /\ UNCHANGED <<privateChatRooms, nextMatch>>
               ELSE /\ nextMatch < MaxMatches
                    /\ nextMatch' = nextMatch + 1
                    /\ waitingQueue' = queueDelete(queue, partnerId)
                    /\ privateChatRooms' =
                          MapPut(privateChatRooms, nextMatch + 1,
                                 [participants |-> {userId, partnerId},
                                  createdAt |-> now, emptySince |-> None])
                    /\ ret' = Ack(c, TRUE, "random:search", userId, nextMatch + 1, TRUE)
       ELSE /\ waitingQueue' = Append(queue, entry)
            /\ ret' = Ack(c, TRUE, "random:search", userId, None, TRUE)
            /\ UNCHANGED <<privateChatRooms, nextMatch>>
    /\ UNCHANGED <<now, users, activeSockets, userSockets, publicRooms, conn, nextUser>>
    /\ LegacyFrame

\* socket.on('random:cancel')
RandomCancel(c) ==
    /\ LegacyEvent(c)
    /\ waitingQueue' = queueDelete(waitingQueue, conn[c].currentUserId)
    /\ ret' = Ack(c, TRUE, "random:cancel", conn[c].currentUserId, None, TRUE)
    /\ UNCHANGED <<now, users, activeSockets, userSockets, publicRooms,
                   privateChatRooms, conn, nextUser, nextMatch>>
    /\ LegacyFrame

\* socket.on('room:join') with { roomId }
RoomJoin(c, roomId) ==
    /\ LegacyEvent(c)
    /\ publicRooms' = IF roomId \in DOMAIN publicRooms
                      THEN [publicRooms EXCEPT ![roomId] = @ \cup {conn[c].currentUserId}]
                      ELSE publicRooms
    /\ ret' = Ack(c, TRUE, "room:join", roomId, None, roomId \in DOMAIN publicRooms)
    /\ UNCHANGED <<now, users, activeSockets, userSockets, waitingQueue,
                   privateChatRooms, conn, nextUser, nextMatch>>
    /\ LegacyFrame

\* socket.on('chat:leave') with { chatId }
ChatLeave(c, ref) ==
    LET userId == conn[c].currentUserId IN
    /\ LegacyEvent(c)
    /\ publicRooms' = IF ref[1] = "room" /\ ref[2] \in DOMAIN publicRooms
                      THEN [publicRooms EXCEPT ![ref[2]] = @ \ {userId}]
                      ELSE publicRooms
    /\ privateChatRooms' =
          IF ref[1] = "chat" /\ ref[2] \in DOMAIN privateChatRooms
          THEN [privateChatRooms EXCEPT ![ref[2]] = roomLeave(@, userId, now)]
          ELSE privateChatRooms
    /\ ret' = Ack(c, TRUE, "chat:leave", ref[2], None, TRUE)
    /\ UNCHANGED <<now, users, activeSockets, userSockets, waitingQueue, conn,
                   nextUser, nextMatch>>
    /\ LegacyFrame

LegacyDisconnect(c) ==
    /\ LegacyEvent(c)
    /\ conn' = [conn EXCEPT ![c].state = "closed", ![c].closedAt = now]
    /\ SetLegacy(legacyDisconnect(Legacy, c, conn[c].currentUserId, now))
    /\ ret' = Ack(c, TRUE, "disconnect", c, None, TRUE)
    /\ UNCHANGED <<now, nextUser, nextMatch>>
    /\ LegacyFrame

\* a timer callback runs when it is due or a millisecond later
TimerLateness == {0, 1}

\* the clock reads t while the callback of the timer due at time due is
\* pending or not yet due
NotOverdue(t, due) == \E late \in TimerLateness : t <= due + late

LegacyTickSteps == {30000}

\* the clock advances, by a step or to the time at which the cleanup job is
\* due or a millisecond past it; the events handled before the job runs
\* see that time
LegacyTick ==
    /\ backend = "legacy"
    /\ OneMore
    /\ \E t \in {now + d : d \in LegacyTickSteps}
                 \cup {timerDue.job + late : late \in TimerLateness} :
          /\ now < t
          /\ t <= StartTime + MaxLegacyNow
          /\ NotOverdue(t, timerDue.job)
          /\ now' = t
    /\ ret' = Ret("tick", None, None, TRUE)
    /\ UNCHANGED <<users, activeSockets, userSockets, publicRooms, waitingQueue,
                   privateChatRooms, conn, nextUser, nextMatch>>
    /\ LegacyFrame

\* setInterval(() => { cleanupEmptyRooms(); ... }, 30000): the callback of
\* the job, which is due, runs at the time the clock reads; the next run is
\* due JOB_INTERVAL after this one
CleanupJob ==
    /\ backend = "legacy"
    /\ OneMore
    /\ now >= timerDue.job
    /\ SetLegacy(cleanupJob(Legacy, now))
    /\ timerDue' = [timerDue EXCEPT !.job = now + JOB_INTERVAL]
    /\ ret' = Ret("cleanupJob", None, None, TRUE)
    /\ UNCHANGED <<now, conn, nextUser, nextMatch>>
    /\ UNCHANGED <<sessVars, repVars, userMetadata, activeMatches, rateVars,
                   nextMessage, typingUsers, typingTimers, backend, privateRequests>>

\* the legacy limits of a user: there is no 'report' type
NewLegacyLimits(t) ==
    [lastMessage |-> 0, messageCount |-> 0, lastTyping |-> 0, windowStart |-> t]

\* checkRateLimit of the legacy server
legacyCheckRateLimit(limitsMap, userId, type, t) ==
    LET m0 == IF userId \in DOMAIN limitsMap THEN limitsMap
              ELSE MapPut(limitsMap, userId, NewLegacyLimits(t))
        limits == m0[userId]
        r == IF type = "message" THEN checkMessage(limits, t)
             ELSE IF type = "typing" THEN checkTyping(limits, t)
             ELSE [limits |-> limits, allowed |-> TRUE]
    IN [limits |-> MapPut(m0, userId, r.limits), allowed |-> r.allowed]

LEGACY_MESSAGE_MAX == 5000
LEGACY_CONTENT_MAX == 2000

\* what message:send and typing leave alone
LimitsFrame ==
    UNCHANGED <<sessVars, repVars, userMetadata, activeMatches, messageChecks, accepted,
                nextMessage, typingUsers, typingTimers, backend, privateRequests,
                timerDue, now, users, activeSockets, userSockets, publicRooms,
                waitingQueue, privateChatRooms, conn, nextUser, nextMatch>>

\* socket.on('message:send') with { chatId, content }; every exception is
\* caught in the handler and answered with an error event
MessageSend(c, data) ==
    LET userId == conn[c].currentUserId
        rl == legacyCheckRateLimit(rateLimits, userId, "message", now)
        Error(message) == Ack(c, TRUE, "message:send", data, message, FALSE)
    IN
    /\ LegacyEvent(c)
    /\ IF data.isNull
       THEN ret' = Error("Failed to send message") /\ UNCHANGED rateLimits
       ELSE IF ~validatePayloadTypes(data, [chatId |-> "string", content |-> "string"])
       THEN ret' = Error("Invalid payload") /\ UNCHANGED rateLimits
       ELSE IF data.content.type # "string"
       THEN ret' = Error("Failed to send message") /\ UNCHANGED rateLimits
       ELSE IF \/ TrimRight(TrimLeft(data.content.val)) = << >>
               \/ TextLength(data.content.val) > LEGACY_MESSAGE_MAX
       THEN ret' = Error("Invalid message length") /\ UNCHANGED rateLimits
       ELSE IF ~rl.allowed
       THEN ret' = Error("Rate limit exceeded") /\ rateLimits' = rl.limits
       ELSE /\ rateLimits' = rl.limits
            /\ ret' = Ack(c, TRUE, "message:send", data,
                          [chatId |-> data.chatId, senderId |-> userId,
                           content |-> Substring(sanitize(data.content.val),
                                                 LEGACY_CONTENT_MAX)],
                          TRUE)
    /\ LimitsFrame

\* socket.on('typing') with { chatId, isTyping }
LegacyTyping(c, data) ==
    LET userId == conn[c].currentUserId
        rl == legacyCheckRateLimit(rateLimits, userId, "typing", now)
    IN
    /\ LegacyEvent(c)
    /\ IF \/ data.isNull
          \/ ~validatePayloadTypes(data, [chatId |-> "string", isTyping |-> "boolean"])
       THEN /\ ret' = Ack(c, TRUE, "typing", data, None, FALSE)
            /\ UNCHANGED rateLimits
       ELSE /\ rateLimits' = rl.limits
            /\ ret' = Ack(c, TRUE, "typing", data, None, rl.allowed)
    /\ LimitsFrame

\* the payloads of message:send and typing: a message to a public room, a
\* blank message, a payload without content, and typing with a valid and an
\* invalid isTyping
LegacyMessages ==
    {[isNull |-> FALSE, chatId |-> AnyRoom, content |-> content] :
        content \in {Text(<<Run("a", 1)>>), Text(<<Run(" ", 1)>>), Undefined}}
LegacyTypings ==
    {[isNull |-> FALSE, chatId |-> AnyRoom, isTyping |-> isTyping] :
        isTyping \in {Bool(TRUE), Text(<<Run("a", 1)>>)}}

Pending == steps < MaxLegacySteps
\* message:send and typing change the rate limits alone, which no other
\* legacy handler reads: they are among the first events of a run
Chatting == steps < MaxLegacyChatSteps

NextLegacy ==
    \/ Pending /\ LegacyTick
    \/ Pending /\ CleanupJob
    \/ Pending /\ \E username \in LegacyNames, age \in Ages : Login(username, age)
    \/ Pending /\ \E c \in SocketIds, token \in UserIds \cup {None} :
                     LegacyConnect(c, token)
    \/ Pending /\ \E c \in SocketIds : RandomSearch(c)
    \/ Pending /\ \E c \in SocketIds : RandomCancel(c)
    \/ Pending /\ \E c \in SocketIds, r \in RoomIds : RoomJoin(c, r)
    \/ Pending /\ \E c \in SocketIds, ref \in ChatRefs : ChatLeave(c, ref)
    \/ Pending /\ \E c \in SocketIds : LegacyDisconnect(c)
    \/ Chatting /\ \E c \in SocketIds, data \in LegacyMessages : MessageSend(c, data)
    \/ Chatting /\ \E c \in SocketIds, data \in LegacyTypings : LegacyTyping(c, data)

SpecLegacy == LegacyInit /\ [][NextLegacy]_vars

\* C21: a user waiting in the matchmaking queue leaves it only by being
\* matched into a new private room, by an own random:cancel, or by the
\* disconnect of an own socket (an own random:search re-enters the queue or
\* matches); no timer and no other user's event removes a waiting user,
\* however long the wait.
C21_WaitingUserLeavesOnlyByOwnAct ==
    [][\A u \in UserIds :
          (u \in Queued(waitingQueue) /\ u \notin Queued(waitingQueue'))
          => \/ \E m \in DOMAIN privateChatRooms' \ DOMAIN privateChatRooms :
                   u \in privateChatRooms'[m].participants
             \/ /\ ret'.op \in {"random:cancel", "disconnect"}
                /\ conn[ret'.socket].currentUserId = u]_vars

\* C30: the cleanup sweep deletes a private/random room only if its
\* participant set has been empty for more than 60 s without interruption; a
\* room empty for a shorter time is kept.
C30_SweepKeepsRecentlyEmptiedRooms ==
    [][\A m \in DOMAIN privateChatRooms :
          m \notin DOMAIN privateChatRooms'
          => /\ privateChatRooms[m].emptySince # None
             /\ now' - privateChatRooms[m].emptySince > ROOM_GRACE]_vars

\* ------------------------------------------- disconnects, in either backend
\* The server runs one of the two programs; users connect, pair, join and
\* leave rooms, and disconnect.
Open == steps < MaxDiscSteps

NextDisc ==
    \/ Open /\ backend = "production" /\ \E c \in SocketIds : Connect(c)
    \/ Open /\ backend = "production"
            /\ \E c \in SocketIds, name \in ReconNames : UserJoin(c, name, TRUE)
    \/ Open /\ backend = "production"
            /\ \E c \in SocketIds, t \in TokenIds : ReconnectSession(c, t, TRUE)
    \/ Open /\ backend = "production" /\ \E c \in SocketIds : StartRandomChat(c, TRUE)
    \/ Open /\ backend = "production"
            /\ \E c \in SocketIds, r \in RoomIds : JoinRoom(c, r, TRUE)
    \/ Open /\ backend = "production"
            /\ \E c \in SocketIds, ref \in ChatRefs : LeaveRoom(c, ref)
    \/ Open /\ backend = "production" /\ \E c \in SocketIds : Disconnect(c)
    \/ Open /\ \E username \in LegacyNames, age \in Ages : Login(username, age)
    \/ Open /\ \E c \in SocketIds, token \in UserIds : LegacyConnect(c, token)
    \/ Open /\ \E c \in SocketIds : RandomSearch(c)
    \/ Open /\ \E c \in SocketIds, r \in RoomIds : RoomJoin(c, r)
    \/ Open /\ \E c \in SocketIds, ref \in ChatRefs : ChatLeave(c, ref)
    \/ Open /\ \E c \in SocketIds : LegacyDisconnect(c)

SpecDisc == (Init \/ LegacyInit) /\ [][NextDisc]_vars

\* the rooms, queue, presence and match state of the running server
Current == IF backend = "legacy" THEN Legacy ELSE Server

\* the state S after the disconnect handler of socket c has run on it
AfterDisconnect(S, c) ==
    IF backend = "legacy" THEN legacyDisconnect(S, c, conn[c].currentUserId, now)
    ELSE disconnect(S, c, conn[c].currentUserId)

OpenSockets == {c \in SocketIds : conn[c].state = "open"}

\* C26: for open connections a and b of different users the disconnects of
\* a and b leave the same rooms, queue, presence and match state in either
\* order, and a disconnect of a handled twice leaves the state of a
\* disconnect handled once.
C26_DisconnectsCommuteAndRepeat ==
    /\ \A a, b \in OpenSockets :
          conn[a].currentUserId # conn[b].currentUserId
          => AfterDisconnect(AfterDisconnect(Current, a), b)
             = AfterDisconnect(AfterDisconnect(Current, b), a)
    /\ \A a \in OpenSockets :
          AfterDisconnect(AfterDisconnect(Current, a), a) = AfterDisconnect(Current, a)

\* the participants of private room m
Participants(m) ==
    IF backend = "legacy" THEN privateChatRooms[m].participants ELSE privateChatRooms[m]

\* one participant of a private room has disconnected and the other, still
\* connected, is the only participant left
C26_Witness ==
    /\ ret.op = "disconnect"
    /\ conn[ret.socket].currentUserId # None
    /\ \E a \in OpenSockets, m \in DOMAIN privateChatRooms :
          /\ conn[a].currentUserId # conn[ret.socket].currentUserId
          /\ Participants(m) = {conn[a].currentUserId}

\* ------------------------------------------------------ typing indicators
\* A user joins and emits typing events for a room a second or two apart;
\* the deferred clears run when they are due.
TypingTickSteps == {1000, 2000}
Typist == steps < MaxTypingSteps

TypingTick ==
    /\ Running
    /\ Advance(TypingTickSteps, MaxTypingNow)
    /\ ret' = Ret("tick", None, None, TRUE)
    /\ OneMore
    /\ Frame(UNCHANGED <<sessVars, repVars, matchVars, rateLimits, coordVars>>)

NextTyping ==
    \/ Typist /\ TypingTick
    \/ TypingTimeout
    \/ Typist /\ \E c \in SocketIds : Connect(c)
    \/ Typist /\ \E c \in SocketIds, name \in ReconNames : UserJoin(c, name, TRUE)
    \/ Typist /\ \E c \in SocketIds : Typing(c, AnyRoom)

SpecTyping == Init /\ [][NextTyping]_vars

\* C33: a user leaves the typing set of a room only 3 s or more after the
\* user's most recent accepted typing event (the time in lastTyping): the
\* deferred clear of an earlier typing event does not clear a later one.
C33_ClearOnlyAfterLatestTyping ==
    [][\A r \in DOMAIN typingUsers : \A u \in typingUsers[r] :
          u \notin typingUsers'[r]
          => now - rateLimits[u].lastTyping >= TYPING_TIMEOUT]_vars

\* C35: a connection that is associated with a user id (by userJoin or by a
\* successful reconnectSession) keeps that user id for the rest of its life:
\* no later userJoin or reconnectSession on it binds it to another user.
C35_ConnectionKeepsItsUser ==
    [][\A c \in SocketIds :
          conn[c].currentUserId # None
          => conn'[c].currentUserId = conn[c].currentUserId]_vars

\* the private/random rooms user u is a participant of, and the match
\* records that name u
RoomsOf(u) == {m \in DOMAIN privateChatRooms : u \in privateChatRooms[m]}
MatchesOf(u) ==
    {m \in DOMAIN activeMatches : u \in {activeMatches[m].user1, activeMatches[m].user2}}

\* C36: a user is a participant of at most one private/random room and is
\* named in at most one activeMatches record at any time.
C36_AtMostOneMatchPerUser ==
    \A u \in UserIds : Cardinality(RoomsOf(u)) <= 1 /\ Cardinality(MatchesOf(u)) <= 1

\* C37: skipMatch(chatId) of an authenticated user who is not a participant
\* of room chatId is refused (no partnerSkipped is sent to the room) and
\* changes neither the room's participants nor the activeMatches record of
\* chatId.
C37_OnlyParticipantEndsMatch ==
    [][\A m \in DOMAIN privateChatRooms :
          (/\ steps' = steps + 1
           /\ ret'.op = "skipMatch"
           /\ ret'.a = m
           /\ conn[ret'.socket].currentUserId # None
           /\ conn[ret'.socket].currentUserId \notin privateChatRooms[m])
          => /\ ~ret'.ok
             /\ m \in DOMAIN privateChatRooms'
             /\ privateChatRooms'[m] = privateChatRooms[m]
             /\ m \in DOMAIN activeMatches
                => (m \in DOMAIN activeMatches'
                    /\ activeMatches'[m] = activeMatches[m])]_vars

\* ------------------------------------------ legacy private chat requests
\* what the private chat handlers leave alone
PrivateFrame ==
    UNCHANGED <<sessVars, repVars, userMetadata, activeMatches, rateVars,
                nextMessage, typingUsers, typingTimers, backend, timerDue, now, users,
                activeSockets, userSockets, publicRooms, waitingQueue, conn, nextUser>>

\* the user that a payload field names, if any
UserOf(field) ==
    IF field.type = "string" /\ Len(field.val) = 1 THEN field.val[1] ELSE None

\* socket.on('private:request') with { targetUserId }; an exception is
\* caught in the handler and answered with nothing
PrivateRequest(c, data) ==
    LET userId == conn[c].currentUserId
        targetUserId == UserOf(data.targetUserId)
    IN
    /\ LegacyEvent(c)
    /\ IF data.isNull \/ ~validatePayloadTypes(data, [targetUserId |-> "string"])
       THEN /\ ret' = Ack(c, TRUE, "private:request", data, None, FALSE)
            /\ UNCHANGED privateRequests
       ELSE IF targetUserId \notin DOMAIN userSockets \/ userSockets[targetUserId] = {}
       THEN /\ ret' = Ack(c, TRUE, "private:request", data, "User not online", FALSE)
            /\ UNCHANGED privateRequests
       ELSE /\ privateRequests' = privateRequests \cup {<<userId, targetUserId>>}
            /\ ret' = Ack(c, TRUE, "private:request", data,
                          First(userSockets[targetUserId]), TRUE)
    /\ UNCHANGED <<privateChatRooms, nextMatch>>
    /\ PrivateFrame

\* socket.on('private:request:response') with { accepted, requesterId }
PrivateResponse(c, data) ==
    LET userId == conn[c].currentUserId
        requesterId == UserOf(data.requesterId)
    IN
    /\ LegacyEvent(c)
    /\ IF \/ data.isNull
          \/ ~validatePayloadTypes(data, [accepted |-> "boolean",
                                          requesterId |-> "string"])
       THEN /\ ret' = Ack(c, TRUE, "private:request:response", data, None, FALSE)
            /\ UNCHANGED <<privateChatRooms, nextMatch>>
       ELSE IF requesterId \notin DOMAIN userSockets \/ userSockets[requesterId] = {}
       THEN /\ ret' = Ack(c, TRUE, "private:request:response", data,
                          "Requester offline", FALSE)
            /\ UNCHANGED <<privateChatRooms, nextMatch>>
       ELSE IF ~Truthy(data.accepted) \/ conn[First(userSockets[requesterId])].state # "open"
       THEN /\ ret' = Ack(c, TRUE, "private:request:response", data, None, FALSE)
            /\ UNCHANGED <<privateChatRooms, nextMatch>>
       ELSE /\ nextMatch < MaxMatches
            /\ nextMatch' = nextMatch + 1
            /\ privateChatRooms' =
                  MapPut(privateChatRooms, nextMatch + 1,
                         [participants |-> {userId, requesterId},
                          createdAt |-> now, emptySince |-> None])
            /\ ret' = Ack(c, TRUE, "private:request:response", data, nextMatch + 1, TRUE)
    /\ UNCHANGED privateRequests
    /\ PrivateFrame

\* the payloads of the private chat events: null, a key missing, a number
\* in place of the user id, and the ids of the users
UserFields == {Undefined, Num(MaxUsers)} \cup {Str(<<u>>) : u \in UserIds}
RequestPayloads ==
    {[isNull |-> TRUE, targetUserId |-> Undefined]}
    \cup {[isNull |-> FALSE, targetUserId |-> f] : f \in UserFields}
ResponsePayloads ==
    {[isNull |-> TRUE, accepted |-> Undefined, requesterId |-> Undefined]}
    \cup {[isNull |-> FALSE, accepted |-> a, requesterId |-> f] :
             a \in {Undefined, Bool(FALSE), Bool(TRUE)}, f \in UserFields}

Asking == steps < MaxAskSteps

NextPrivate ==
    \/ Asking /\ \E username \in LegacyNames, age \in Ages : Login(username, age)
    \/ Asking /\ \E c \in SocketIds, token \in UserIds \cup {None} :
                    LegacyConnect(c, token)
    \/ Asking /\ \E c \in SocketIds, data \in RequestPayloads : PrivateRequest(c, data)
    \/ Asking /\ \E c \in SocketIds, data \in ResponsePayloads : PrivateResponse(c, data)
    \/ Asking /\ \E c \in SocketIds, ref \in ChatRefs : ChatLeave(c, ref)
    \/ Asking /\ \E c \in SocketIds : LegacyDisconnect(c)

SpecPrivate == LegacyInit /\ [][NextPrivate]_vars

\* C39: a private:request:response creates a private chat room between the
\* responder t and the requester r it names only if r sent a private:request
\* naming t before; otherwise it creates no room.
C39_RoomOnlyAfterRequest ==
    [][(/\ ret'.op = "private:request:response"
        /\ steps' = steps + 1
        /\ DOMAIN privateChatRooms' # DOMAIN privateChatRooms)
       => <<UserOf(ret'.a.requesterId), conn[ret'.socket].currentUserId>>
             \in privateRequests]_vars

\* --------------------------------------------------- messages into rooms
\* Users pair, join and leave rooms, and send short messages to a public
\* room and to a private room.
\* matchId = `match-${uuidv4()}`: a client can name the public rooms and the
\* chats created so far
CreatedRefs ==
    {<<"room", r>> : r \in RoomIds} \cup {<<"chat", m>> : m \in 1..nextMatch}
SendPayloads == {Payload(Str(ref), Text(<<Run("a", 1)>>)) : ref \in CreatedRefs}
Sending == steps < MaxSendSteps

NextSend ==
    \/ Sending /\ \E c \in SocketIds : Connect(c)
    \/ Sending /\ \E c \in SocketIds, name \in ReconNames : UserJoin(c, name, TRUE)
    \/ Sending /\ \E c \in SocketIds : StartRandomChat(c, TRUE)
    \/ Sending /\ \E c \in SocketIds, r \in RoomIds : JoinRoom(c, r, TRUE)
    \/ Sending /\ \E c \in SocketIds, ref \in CreatedRefs : LeaveRoom(c, ref)
    \/ Sending /\ \E c \in SocketIds, data \in SendPayloads : SendMessage(c, data, TRUE)

SpecSend == Init /\ [][NextSend]_vars

\* user u is in the participant set of the room that ref names
Member(u, ref) ==
    IF ref[1] = "room" THEN ref[2] \in DOMAIN publicRooms /\ u \in publicRooms[ref[2]]
    ELSE ref[2] \in DOMAIN privateChatRooms /\ u \in privateChatRooms[ref[2]]

\* C38: a sendMessage for room R is broadcast to R only if the sender is a
\* member of R's participant set when it is handled.
C38_OnlyMembersDeliver ==
    [][(Handled("sendMessage") /\ ret'.ok)
       => Member(conn[ret'.socket].currentUserId, ret'.a.roomId.val)]_vars

\* a sendMessage of a user who has left a private room was broadcast to the
\* room, where the partner still is
PrivateRoomOnlyMembersDeliver ==
    [][(/\ Handled("sendMessage")
        /\ ret'.ok
        /\ ret'.a.roomId.val[1] = "chat"
        /\ ret'.a.roomId.val[2] \in DOMAIN privateChatRooms
        /\ privateChatRooms[ret'.a.roomId.val[2]] # {})
       => Member(conn[ret'.socket].currentUserId, ret'.a.roomId.val)]_vars

\* C40: after a user's leaveRoom(R) the user's session does not record R as
\* currentRoom, and after a user's skipMatch(M) it does not record M as
\* currentMatch, so that a later reconnectSession restores neither.
C40_LeavingClearsSession ==
    [][\A c \in SocketIds :
          LET u == conn[c].currentUserId
              token == conn[c].currentSessionToken
          IN (ret'.socket = c /\ ret'.ok /\ token \in DOMAIN sessions')
             => /\ (/\ Handled("leaveRoom")
                    /\ ret'.a \in DOMAIN publicRooms
                    /\ u \in publicRooms[ret'.a]
                    /\ u \notin publicRooms'[ret'.a])
                   => sessions'[token].currentRoom # ret'.a
                /\ Handled("skipMatch")
                   => sessions'[token].currentMatch # ret'.a]_vars

\* the buckets findMatch may search for a user of priority p
NearBuckets(p) == {q \in Priorities : q \in {p - 1, p, p + 1}}

\* C27: findMatch(u) for a queued user u of priority p returns None only if
\* no other user is queued in bucket p, p - 1 or p + 1; a single user
\* waiting alone in an adjacent bucket is found.
C27_NoneOnlyIfNobodyNear ==
    [][(/\ ret'.op = "findMatch"
        /\ steps' = steps + 1
        /\ ret'.a \in DOMAIN userMetadata
        /\ ret'.res = None)
       => \A q \in NearBuckets(userMetadata[ret'.a].priority) :
             Range(waitingQueue[q]) \ {ret'.a} = {}]_vars

\* C28: the recorded priority of the partner returned by findMatch(u)
\* differs from the recorded priority of u by at most 1.
C28_PartnerPriorityWithinOne ==
    [][(/\ ret'.op = "findMatch"
        /\ steps' = steps + 1
        /\ ret'.res # None)
       => Abs(userMetadata[ret'.a].priority - userMetadata[ret'.res].priority) <= 1]_vars

\* ------------------------------------- SpecBest: the choice of the partner
\* Three users, so that a bucket can offer two candidates.  The first user has
\* sent no message or MaxBestMessages messages before the run, which gives
\* two activity levels; the clock moves between the addToQueue calls and
\* recordReport moves the second user to another bucket.
BestUserIds == 1..(MaxUsers + 1)
Calls == steps < MaxBestSteps

\* the reputations after k messages that are not spam of user u
RECURSIVE AfterMessages(_, _, _, _)
AfterMessages(reps, u, k, t) ==
    IF k = 0 THEN reps
    ELSE AfterMessages(recordMessage(reps, u, FALSE, t), u, k - 1, t)

\* the reputations after MaxBestMessages messages of every user of S
Talkative(S) ==
    [u \in S |-> AfterMessages(EmptyMap, u, MaxBestMessages, StartTime)[u]]

\* the first user is the one that may have sent messages
BestInit == \E S \in SUBSET {1} : InitWith(Talkative(S))

BestTickSteps == {577, 25000}

\* time passes between an addToQueue call and the next call
BestTick ==
    /\ ret.op = "addToQueue"
    /\ Advance(BestTickSteps, MaxBestNow)
    /\ ret' = Ret("tick", None, None, TRUE)
    /\ UNCHANGED <<repVars, matchVars>>
    /\ Count(MaxBestSteps)
    /\ MatchFrame

NextBest ==
    \/ Calls /\ BestTick
    \/ Calls /\ \E u \in BestUserIds : MatchAdd(u)
    \/ Calls /\ \E u \in BestUserIds : MatchFind(u)
    \/ Calls /\ \E u \in {2} : MatchReport(u)

SpecBest == BestInit /\ [][NextBest]_vars

\* |activityLevel_u - activityLevel_c| + |joinedAt_u - joinedAt_c| / 1000,
\* in thousandths
Compatibility(u, c) ==
    1000 * Abs(userMetadata[u].activityLevel - userMetadata[c].activityLevel)
    + Abs(userMetadata[u].joinedAt - userMetadata[c].joinedAt)

\* the same score as the doubles compute it: the quotient is rounded, and
\* the sum is rounded again
ComputedScore(u, c) ==
    FAdd(FromInt(Abs(userMetadata[u].activityLevel - userMetadata[c].activityLevel)),
         FDivInt(Abs(userMetadata[u].joinedAt - userMetadata[c].joinedAt), 1000))

\* the other users of bucket q that have metadata, in insertion order
CandidatesIn(q, u) ==
    SelectSeq(waitingQueue[q], LAMBDA id : id # u /\ id \in DOMAIN userMetadata)

\* the buckets findMatch(u) searches, in its order
SearchOrder(u) ==
    LET p == userMetadata[u].priority IN
    <<p>> \o (IF p > 0 THEN <<p - 1>> ELSE << >>)
          \o (IF p < MAX_PRIORITY THEN <<p + 1>> ELSE << >>)

\* findMatch(u) takes its partner from bucket q: the first bucket of the
\* search in which findMatchInPriority finds somebody
TakenFrom(u, q) ==
    \E i \in DOMAIN SearchOrder(u) :
       /\ SearchOrder(u)[i] = q
       /\ findMatchInPriority(MM, u, q, userMetadata[u]) # None
       /\ \A j \in 1..(i - 1) :
             findMatchInPriority(MM, u, SearchOrder(u)[j], userMetadata[u]) = None

\* C29, as stated: the partner returned by findMatch(u) has the minimum
\* compatibility score, taken as the exact number, among the other users
\* with metadata of the bucket it is taken from, and is the first of that
\* bucket, in insertion order, with that score.
C29_PartnerIsFirstBestCandidate ==
    [][(/\ ret'.op = "findMatch"
        /\ steps' = steps + 1
        /\ ret'.res # None)
       => \A q \in Priorities :
             TakenFrom(ret'.a, q)
             => LET u == ret'.a
                    candidates == CandidatesIn(q, u)
                IN \E i \in DOMAIN candidates :
                      /\ candidates[i] = ret'.res
                      /\ \A j \in DOMAIN candidates :
                            Compatibility(u, candidates[i]) <= Compatibility(u, candidates[j])
                      /\ \A j \in 1..(i - 1) :
                            Compatibility(u, candidates[i]) < Compatibility(u, candidates[j])]_vars

\* C29, with the score as the doubles compute it: the partner returned by
\* findMatch(u) has the minimum computed score among the other users with
\* metadata of the bucket it is taken from, and is the first of that
\* bucket, in insertion order, with that computed score.
C29_PartnerIsFirstBestComputed ==
    [][(/\ ret'.op = "findMatch"
        /\ steps' = steps + 1
        /\ ret'.res # None)
       => \A q \in Priorities :
             TakenFrom(ret'.a, q)
             => LET u == ret'.a
                    candidates == CandidatesIn(q, u)
                IN \E i \in DOMAIN candidates :
                      /\ candidates[i] = ret'.res
                      /\ \A j \in DOMAIN candidates :
                            ~FLess(ComputedScore(u, candidates[j]),
                                   ComputedScore(u, candidates[i]))
                      /\ \A j \in 1..(i - 1) :
                            FLess(ComputedScore(u, candidates[i]),
                                  ComputedScore(u, candidates[j]))]_vars

\* findMatch has returned a partner and passed over a candidate that had
\* joined the queue before the clock moved and whose activity level is not
\* that of the partner
C29_Witness ==
    /\ ret.op = "findMatch"
    /\ ret.res \notin {None, ret.a}
    /\ \E c \in DOMAIN userMetadata :
          /\ c \notin {ret.a, ret.res}
          /\ BucketsOf(c) # {}
          /\ userMetadata[c].joinedAt < now
          /\ userMetadata[c].activityLevel
                # calculateActivityLevel(reputations[ret.res])

\* ------------------------------- SpecForgive: offences, then good conduct
\* A user was reported when the server started and has since sent a message
\* every hour, just before the hourly decay timer ran.  The run goes on
\* from there: the user sends messages that are not spam, the clock
\* advances and the timer fires; the user may offend again.
Offending == steps < MaxOffences

\* the reputations after k reports of user u at time t
RECURSIVE AfterReports(_, _, _, _)
AfterReports(reps, u, k, t) ==
    IF k = 0 THEN reps
    ELSE AfterReports(recordReport(reps, u, t), u, k - 1, t)

\* one more hour: user u sends a message at time t, then the timer runs
AnotherHour(reps, u, t) == decayReputations(recordMessage(reps, u, FALSE, t), t)

\* the reputations k hours after time t: the timer has run on time every
\* hour and user u has sent a message that is not spam just before each
\* run; where nobody has a record nothing happens
RECURSIVE AfterHours(_, _, _, _)
AfterHours(reps, u, k, t) ==
    IF k = 0 \/ reps = EmptyMap THEN reps
    ELSE AfterHours(AnotherHour(reps, u, t + DECAY_INTERVAL), u, k - 1,
                    t + DECAY_INTERVAL)

ForgiveHours == {MaxForgiveHours - 1, MaxForgiveHours}

ForgiveInit ==
    \E n \in 0..MaxOffences, k \in ForgiveHours :
       InitAt(StartTime + k * DECAY_INTERVAL,
              AfterHours(AfterReports(EmptyMap, 1, n, StartTime), 1, k, StartTime))

ForgiveMessage(u) ==
    /\ u \in DOMAIN reputations
    /\ reputations[u].messageCount < MaxForgiveHours + MaxForgiveMsgs
    /\ reputations' = recordMessage(reputations, u, FALSE, now)
    /\ ret' = Ret("recordMessage", u, None, TRUE)
    /\ UNCHANGED <<now, matchVars, steps>>
    /\ MatchFrame

\* the clock advances to the time at which the decay timer is due or a
\* millisecond past it; the calls made before the timer's callback runs see
\* that time
ForgiveTick ==
    /\ \E late \in TimerLateness :
          /\ now < timerDue.decay + late
          /\ timerDue.decay + late <= StartTime + MaxForgiveNow
          /\ now' = timerDue.decay + late
    /\ ret' = Ret("tick", None, None, TRUE)
    /\ UNCHANGED <<repVars, matchVars, steps>>
    /\ MatchFrame

\* setInterval(() => this.decayReputations(), 3600000): the callback of the
\* timer, which is due, runs at the time the clock reads; the next run is
\* due DECAY_INTERVAL after this one
ForgiveDecay ==
    /\ now >= timerDue.decay
    /\ reputations' = decayReputations(reputations, now)
    /\ timerDue' = [timerDue EXCEPT !.decay = now + DECAY_INTERVAL]
    /\ ret' = Ret("decayReputations", None, None, TRUE)
    /\ UNCHANGED <<now, matchVars, steps>>
    /\ UNCHANGED <<sessVars, rateVars, coordVars>>

NextForgive ==
    \/ Offending /\ \E u \in RepUserIds : MatchReport(u)
    \/ Offending /\ \E u \in RepUserIds : MatchSkip(u)
    \/ Offending /\ \E u \in RepUserIds : MatchMessage(u, TRUE)
    \/ \E u \in RepUserIds : ForgiveMessage(u)
    \/ ForgiveTick
    \/ ForgiveDecay

SpecForgive == ForgiveInit /\ [][NextForgive]_vars

\* what isToxic reads of a record
Standing(rep) == <<rep.score, rep.reportCount, rep.spamScore>>

\* neither a further run of decayReputations nor a further message of user
\* u that is not spam changes what isToxic reads of u's record
Settled(u) ==
    /\ u \in DOMAIN decayReputations(reputations, now)
    /\ Standing(decayReputations(reputations, now)[u]) = Standing(reputations[u])
    /\ Standing(recordMessage(reputations, u, FALSE, now)[u]) = Standing(reputations[u])

\* C25: a user who commits no further offence and keeps sending messages
\* that are not spam becomes non-toxic under repeated decayReputations
\* ticks, whatever the score, reportCount and spamScore.  Ticks and messages
\* change a record's score, reportCount and spamScore as a function of
\* these three alone, so a record they leave as it is stays as it is at
\* every later tick: by then the user has to be non-toxic.
C25_ForgivenOnceSettled ==
    \A u \in DOMAIN reputations : Settled(u) => ~isToxic(reputations, u)

====
